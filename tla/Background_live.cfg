\* Each component on its own: three files of which one kills the worker and one is never read, a
\* sweep that looks at two; a channel that works and one that does not.
CONSTANTS
  mail = mail
  push = push
  service = service
  Files = {1, 2, 3}
  Wanted = {1, 3}
  Pictures = {2}
  Killers = {2}
  Mute = {3}
  Cap = 2
  MaxFaults = 1
  MaxAsked = 1
  Channels = {mail, push}
  Working = {mail}
  Alerts = {service}
  Heeds <- AllHeed
  Cooldown = 2
  MaxDeaths = 1
  NoChannel = NoChannel
SPECIFICATION BackSpec
INVARIANT ToldOnce
PROPERTIES EveryFileIsRead EveryAlertIsHeard
CHECK_DEADLOCK FALSE
