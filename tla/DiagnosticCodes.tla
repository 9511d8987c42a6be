-------------------------- MODULE DiagnosticCodes --------------------------
(***************************************************************************)
(* Scans of one vehicle and one trouble code that may be on them           *)
(* (homeautoshop/diagnostics/services.py, views.py, models.py): a report   *)
(* becomes a draft, a draft is confirmed into the history, a confirmed     *)
(* scan is read again as a new draft that supersedes it, a code becomes    *)
(* work and the work closes the code, and a code that was addressed and is *)
(* back on a later scan is recurring.                                      *)
(*                                                                         *)
(* Every request is one step: confirm(), upload and promotion are          *)
(* transactions, and what is hard here is the order of requests that may   *)
(* be weeks apart.  The meter's readings are left out: a confirmation adds *)
(* one, and nothing here reads them.                                       *)
(***************************************************************************)
EXTENDS Integers, FiniteSets

CONSTANTS
  Sessions,  \* DiagnosticSession ids, in the order they are minted
  Reports,   \* the files, told apart by their SHA-256
  Days,      \* what performed_on may be
  Miles,     \* what the odometer may read
  NoScan     \* supersedes of a scan that is no re-reading

ASSUME DiagnosticAssumption ==
  /\ Sessions \subseteq Nat
  /\ Days \subseteq Int
  /\ Reports # {} /\ Days # {} /\ Miles # {}
  /\ NoScan \notin Sessions

VARIABLES
  review,      \* "absent", or review_status
  trashed,     \* the sessions with a deleted_at
  report,      \* raw_media
  day,         \* performed_on
  miles,       \* odometer
  supersedes,  \* the session this is a re-reading of
  code,        \* status of the code on this scan, "none" when it is not on it
  work,        \* the codes (by session) that a job item was raised for
  recalled     \* the sessions somebody took back out of the trash

diagVars == <<review, trashed, report, day, miles, supersedes, code, work, recalled>>

CodeStatus == {"open", "addressed", "recurring", "ignored"}

DiagTypeOK ==
  /\ review \in [Sessions -> {"absent", "draft", "confirmed"}]
  /\ trashed \subseteq Sessions
  /\ report \in [Sessions -> Reports]
  /\ day \in [Sessions -> Days]
  /\ miles \in [Sessions -> Miles]
  /\ supersedes \in [Sessions -> Sessions \cup {NoScan}]
  /\ code \in [Sessions -> CodeStatus \cup {"none"}]
  /\ work \subseteq Sessions
  /\ recalled \subseteq Sessions

DiagInit ==
  /\ review = [s \in Sessions |-> "absent"]
  /\ trashed = {} /\ work = {} /\ recalled = {}
  /\ report = [s \in Sessions |-> CHOOSE r \in Reports : TRUE]
  /\ day = [s \in Sessions |-> CHOOSE d \in Days : TRUE]
  /\ miles = [s \in Sessions |-> CHOOSE m \in Miles : TRUE]
  /\ supersedes = [s \in Sessions |-> NoScan]
  /\ code = [s \in Sessions |-> "none"]

-----------------------------------------------------------------------------
Shown(s) == review[s] # "absent" /\ s \notin trashed
Draft(s) == Shown(s) /\ review[s] = "draft"
InHistory(s) == Shown(s) /\ review[s] = "confirmed"

\* The next id: uuid7 mints them in order.
NextId(s) == review[s] = "absent" /\ \A q \in Sessions : q < s => review[q] # "absent"

\* already_in_history(): the latest confirmed scan of the same bytes.
AlreadyInHistory(r) ==
  LET same == {s \in Sessions : InHistory(s) /\ report[s] = r} IN
    IF same = {} THEN {NoScan} ELSE {s \in same : \A q \in same : day[q] <= day[s]}

\* recurrence_check(): addressed on an earlier scan of the history, of which
\* those in `gone` are no part any more.
Healed(s, when, gone) ==
  \E q \in Sessions \ (gone \cup {s}) :
    InHistory(q) /\ code[q] = "addressed" /\ day[q] < when

\* What a parse puts in the place of the code.
Extracted == {"none", "open"}

-----------------------------------------------------------------------------
(* session_from_upload(): a draft, which knows what it is a re-reading of  *)
(* when that is confirmed by now.                                          *)
Upload(s, r, d, m) ==
  /\ NextId(s)
  /\ review' = [review EXCEPT ![s] = "draft"]
  /\ report' = [report EXCEPT ![s] = r]
  /\ day' = [day EXCEPT ![s] = d]
  /\ miles' = [miles EXCEPT ![s] = m]
  /\ \E p \in AlreadyInHistory(r) : supersedes' = [supersedes EXCEPT ![s] = p]
  /\ \E c \in Extracted : code' = [code EXCEPT ![s] = c]
  /\ UNCHANGED <<trashed, work, recalled>>

(* Slip: what is confirmed is read again in place.                         *)
MutReparse(s) ==
  /\ Shown(s)
  /\ \E c \in Extracted : code' = [code EXCEPT ![s] = c]
  /\ UNCHANGED <<review, trashed, report, day, miles, supersedes, work, recalled>>

(* session_reparse() and session_map() of a draft: the codes are replaced. *)
Reparse(s) ==
  /\ Draft(s)
  /\ \E c \in Extracted : code' = [code EXCEPT ![s] = c]
  /\ UNCHANGED <<review, trashed, report, day, miles, supersedes, work, recalled>>

(* session_reparse() of a confirmed scan p: the draft s is a copy of it.   *)
Reread(s, p) ==
  /\ NextId(s)
  /\ InHistory(p)
  /\ review' = [review EXCEPT ![s] = "draft"]
  /\ report' = [report EXCEPT ![s] = report[p]]
  /\ day' = [day EXCEPT ![s] = day[p]]
  /\ miles' = [miles EXCEPT ![s] = miles[p]]
  /\ supersedes' = [supersedes EXCEPT ![s] = p]
  /\ \E c \in Extracted : code' = [code EXCEPT ![s] = c]
  /\ UNCHANGED <<trashed, work, recalled>>

\* Slip: nothing is displaced.
MutDisplaced(s) == {}

\* confirm(): what it displaces, when that is still in the history.
Displaced(s) == {supersedes[s]} \cap (Sessions \ trashed)

(* session_confirm(): the form's date and reading, the status, the scan it *)
(* replaces, and the codes that came back.                                 *)
Confirm(s, d, m) ==
  /\ Draft(s)
  /\ day' = [day EXCEPT ![s] = d]
  /\ miles' = [miles EXCEPT ![s] = m]
  /\ review' = [review EXCEPT ![s] = "confirmed"]
  /\ trashed' = trashed \cup Displaced(s)
  /\ code' = [code EXCEPT ![s] =
                 IF @ = "open" /\ Healed(s, d, Displaced(s)) THEN "recurring" ELSE @]
  /\ UNCHANGED <<report, supersedes, work, recalled>>

(* session_discard(): a draft, or a scan of the history.                   *)
Discard(s) ==
  /\ Shown(s)
  /\ trashed' = trashed \cup {s}
  /\ UNCHANGED <<review, report, day, miles, supersedes, code, work, recalled>>

(* trash_restore().                                                        *)
Recall(s) ==
  /\ s \in trashed
  /\ trashed' = trashed \ {s}
  /\ recalled' = recalled \cup {s}
  /\ UNCHANGED <<review, report, day, miles, supersedes, code, work>>

(* code_promote(): refused on a draft.                                     *)
Promote(s) ==
  /\ code[s] # "none" /\ review[s] = "confirmed"
  /\ work' = work \cup {s}
  /\ UNCHANGED <<review, trashed, report, day, miles, supersedes, code, recalled>>

\* close_codes_for(): only what is open is addressed.
CloseWork(s) ==
  /\ s \in work /\ code[s] = "open"
  /\ code' = [code EXCEPT ![s] = "addressed"]
  /\ UNCHANGED <<review, trashed, report, day, miles, supersedes, work, recalled>>

(* code_status(): the operator's verdict, on any code there is.            *)
SetStatus(s, c) ==
  /\ code[s] # "none"
  /\ code' = [code EXCEPT ![s] = c]
  /\ UNCHANGED <<review, trashed, report, day, miles, supersedes, work, recalled>>

DiagNext ==
  \E s \in Sessions :
    \/ \E r \in Reports, d \in Days, m \in Miles : Upload(s, r, d, m)
    \/ \E p \in Sessions : Reread(s, p)
    \/ \E d \in Days, m \in Miles : Confirm(s, d, m)
    \/ \E c \in CodeStatus : SetStatus(s, c)
    \/ Reparse(s) \/ Discard(s) \/ Recall(s) \/ Promote(s) \/ CloseWork(s)

DiagSpec == DiagInit /\ [][DiagNext]_diagVars

-----------------------------------------------------------------------------
(* Properties.                                                             *)

\* A re-reading is not a second scan: what a confirmed scan is a re-reading of
\* has left the history with the confirmation, and is back only when somebody
\* took it out of the trash.
RereadReplaces ==
  \A s \in Sessions :
    (InHistory(s) /\ supersedes[s] # NoScan) => supersedes[s] \in trashed \cup recalled

\* Whatever is parsed, read again, corrected or mapped afterwards, a scan that was
\* vouched for keeps its report, its date, its reading, and what was on it.
VouchedStays ==
  [][\A s \in Sessions : review[s] = "confirmed" =>
       /\ review'[s] = "confirmed"
       /\ report'[s] = report[s] /\ day'[s] = day[s] /\ miles'[s] = miles[s]
       /\ (code'[s] = "none") = (code[s] = "none")]_diagVars
=============================================================================
