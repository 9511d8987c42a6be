------------------------------ MODULE Accounts ------------------------------
(***************************************************************************)
(* Who can administer the shop (homeautoshop/accounts/views.py,            *)
(* core/views_setup.py).  The first arrival makes the first administrator; *)
(* from then on accounts are made, changed, deactivated and deleted by     *)
(* administrators.  A visit reads the account, asks whether the change     *)
(* would leave nobody who can administer, and saves: three statements,     *)
(* without a transaction, beside other visits.                             *)
(*                                                                         *)
(* Django's own admin is mounted too (config/urls.py, accounts/admin.py)   *)
(* and edits the same rows, the role, the flags and is_active among them,  *)
(* without asking that question.                                           *)
(*                                                                         *)
(* A helper is a member here; passwords, grants and tokens are left out,   *)
(* and is_staff goes with is_superuser.                                    *)
(***************************************************************************)
EXTENDS Integers

CONSTANTS
  Users,   \* accounts there may ever be
  Visits   \* requests at once

ASSUME AccountAssumption == Users # {}

VARIABLES
  account,  \* "none", "active", "inactive" or "removed"
  role,     \* "admin" or "member"
  super,    \* accounts with is_superuser
  marked,   \* accounts the shop's records carry the name of
  visit,    \* what each request is doing
  overtaken   \* two changes that each take an administrator away met between check
            \* and save, a profile was saved with an is_active that had changed, or
            \* Django's admin took the last administrator away

accountVars == <<account, role, super, marked, visit, overtaken>>

Roles == {"admin", "member"}
Changes == {"profile", "activate", "deactivate", "delete"}

\* `role` is what the form says, `active` what was read.
NoVisit == [at |-> "idle", what |-> "profile", whom |-> CHOOSE u \in Users : TRUE,
            role |-> "member", active |-> FALSE]

AccountTypeOK ==
  /\ account \in [Users -> {"none", "active", "inactive", "removed"}]
  /\ role \in [Users -> Roles]
  /\ super \subseteq Users
  /\ marked \subseteq Users
  /\ visit \in [Visits -> [at : {"idle", "setup", "read", "checked"}, what : Changes,
                           whom : Users, role : Roles, active : BOOLEAN]]
  /\ overtaken \in BOOLEAN

AccountInit ==
  /\ account = [u \in Users |-> "none"]
  /\ role = [u \in Users |-> "member"]
  /\ super = {}
  /\ marked = {}
  /\ visit = [v \in Visits |-> NoVisit]
  /\ overtaken = FALSE

-----------------------------------------------------------------------------

Row(u) == account[u] \in {"active", "inactive"}

\* What other_active_admins() and last_admin() count: is_superuser is not asked.
Administers(u) == account[u] = "active" /\ role[u] = "admin"

\* can("user.manage").
Manages(u) == account[u] = "active" /\ (role[u] = "admin" \/ u \in super)

\* _match_django_flags(): the flags follow the role.
FlagsFollow(u, r) == super' = IF r = "admin" THEN super \cup {u} ELSE super \ {u}

NeedsSetup == \A u \in Users : ~Row(u)

\* Slip: the object is asked, onto which the form has already written the new role.
MutLastAdmin(w) ==
  /\ w.role = "admin" /\ w.active
  /\ \A u \in Users \ {w.whom} : ~Administers(u)

\* last_admin(): as stored.
LastAdmin(w) == Administers(w.whom) /\ \A u \in Users \ {w.whom} : ~Administers(u)

\* What _would_strand_the_shop() asks about.
TakesAway(w) ==
  \/ w.what \in {"deactivate", "delete"}
  \/ w.what = "profile" /\ w.role # "admin"

SetVisit(v, new) == visit' = [visit EXCEPT ![v] = new]

-----------------------------------------------------------------------------
(* setup().                                                                *)

OpenSetup(v) ==
  /\ visit[v].at = "idle" /\ NeedsSetup
  /\ SetVisit(v, [visit[v] EXCEPT !.at = "setup"])
  /\ UNCHANGED <<account, role, super, marked, overtaken>>

\* Nothing asks again: two arrivals make two administrators.
FinishSetup(v) ==
  /\ visit[v].at = "setup"
  /\ \E u \in Users :
       /\ account[u] = "none"
       /\ account' = [account EXCEPT ![u] = "active"]
       /\ role' = [role EXCEPT ![u] = "admin"]
       /\ FlagsFollow(u, "admin")
  /\ SetVisit(v, NoVisit)
  /\ UNCHANGED <<marked, overtaken>>

-----------------------------------------------------------------------------
(* user_create(), user_detail(), user_set_active(), user_delete().         *)

UserCreate(v) ==
  /\ visit[v].at = "idle"
  /\ \E by \in Users : Manages(by)
  /\ \E u \in Users, r \in Roles :
       /\ account[u] = "none"
       /\ account' = [account EXCEPT ![u] = "active"]
       /\ role' = [role EXCEPT ![u] = r]
       /\ FlagsFollow(u, r)
  /\ UNCHANGED <<marked, visit, overtaken>>

\* Nobody deactivates or deletes himself.  Only the profile form saves
\* the role it carries and the is_active that was read.
UserRead(v, what, u, r) ==
  /\ visit[v].at = "idle"
  /\ Row(u)
  /\ what # "profile" => r = "member"
  /\ \E by \in Users : Manages(by) /\ (what \in {"deactivate", "delete"} => by # u)
  /\ SetVisit(v, [at |-> "read", what |-> what, whom |-> u, role |-> r,
                  active |-> what = "profile" /\ account[u] = "active"])
  /\ UNCHANGED <<account, role, super, marked, overtaken>>

\* An account somebody's work carries the name of is not deleted.
UserCheck(v) ==
  LET w == visit[v] IN
    /\ w.at = "read"
    /\ SetVisit(v, IF \/ TakesAway(w) /\ LastAdmin(w)
                      \/ w.what = "delete" /\ w.whom \in marked
                   THEN NoVisit
                   ELSE [w EXCEPT !.at = "checked"])
    /\ UNCHANGED <<account, role, super, marked, overtaken>>

\* Another change that takes somebody away is past its check.
Meets(v) ==
  TakesAway(visit[v]) /\ \E o \in Visits \ {v} : visit[o].at = "checked" /\ TakesAway(visit[o])

\* Every column that was read is saved, and inserted again when the row is gone.
SaveProfile(v) ==
  LET w == visit[v] IN
    /\ w.at = "checked" /\ w.what = "profile"
    /\ account' = [account EXCEPT ![w.whom] = IF w.active THEN "active" ELSE "inactive"]
    /\ role' = [role EXCEPT ![w.whom] = w.role]
    /\ FlagsFollow(w.whom, w.role)
    /\ overtaken' = \/ overtaken \/ Meets(v)
                    \/ w.active # (account[w.whom] = "active")
    /\ SetVisit(v, NoVisit)
    /\ UNCHANGED marked

\* The one column is saved; without the row that is an error.
SetActive(v) ==
  LET w == visit[v] IN
    /\ w.at = "checked" /\ w.what \in {"activate", "deactivate"}
    /\ account' = IF Row(w.whom)
                  THEN [account EXCEPT ![w.whom] =
                          IF w.what = "activate" THEN "active" ELSE "inactive"]
                  ELSE account
    /\ overtaken' = (overtaken \/ Meets(v))
    /\ SetVisit(v, NoVisit)
    /\ UNCHANGED <<role, super, marked>>

\* A row that is gone has no role and no flags.
DeleteUser(v) ==
  LET w == visit[v] IN
    /\ w.at = "checked" /\ w.what = "delete"
    /\ account' = [account EXCEPT ![w.whom] = "removed"]
    /\ role' = [role EXCEPT ![w.whom] = "member"]
    /\ FlagsFollow(w.whom, "member")
    /\ overtaken' = (overtaken \/ Meets(v))
    /\ SetVisit(v, NoVisit)
    /\ UNCHANGED marked

(* Django's admin: one transaction, and nothing is asked.                  *)

\* Another change is past its check, or nobody else administers.
WouldStrand(u) ==
  \/ \E v \in Visits : visit[v].at = "checked" /\ TakesAway(visit[v])
  \/ \A o \in Users \ {u} : ~Administers(o)

AdminSite(u) ==
  /\ \E by \in super : account[by] = "active"
  /\ account[u] # "removed"
  /\ \E becomes \in {"active", "inactive"} \cup (IF Row(u) THEN {"removed"} ELSE {}),
        r \in Roles, flag \in BOOLEAN :
       /\ becomes = "removed" => r = "member" /\ ~flag
       /\ account' = [account EXCEPT ![u] = becomes]
       /\ role' = [role EXCEPT ![u] = r]
       /\ super' = IF flag THEN super \cup {u} ELSE super \ {u}
       /\ overtaken' = (overtaken \/ (/\ Administers(u) /\ WouldStrand(u)
                                     /\ ~(becomes = "active" /\ r = "admin")))
  /\ UNCHANGED <<marked, visit>>

\* Somebody records something.
Works(u) ==
  /\ account[u] = "active"
  /\ marked' = marked \cup {u}
  /\ UNCHANGED <<account, role, super, visit, overtaken>>

AccountNext ==
  \/ \E v \in Visits :
       \/ OpenSetup(v) \/ FinishSetup(v) \/ UserCreate(v)
       \/ \E what \in Changes, u \in Users, r \in Roles : UserRead(v, what, u, r)
       \/ UserCheck(v) \/ SaveProfile(v) \/ SetActive(v) \/ DeleteUser(v)
  \/ \E u \in Users : Works(u) \/ AdminSite(u)

AccountSpec == AccountInit /\ [][AccountNext]_accountVars

-----------------------------------------------------------------------------
(* Properties.                                                             *)

\* "That would leave the shop with no administrator, and no way back in": once the
\* shop is set up it has an active administrator, whatever demotions, deactivations and
\* deletions are asked for, also in Django's admin.  Left out is what the code does lose:
\* two of them that met between check and save, a profile saved over an is_active that
\* had changed, and the last administrator being edited away in Django's admin.
SomebodyManages ==
  (~overtaken /\ \E u \in Users : account[u] # "none") => \E u \in Users : Administers(u)
=============================================================================
