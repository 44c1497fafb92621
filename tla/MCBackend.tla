----------------------------- MODULE MCBackend ------------------------------
(* One instance for all topics. Bounds: requests of one behaviour. A       *)
(* scheduled meeting starts with its waiting room on, another one with it  *)
(* off: a request of the host turns it over. Attendance is followed until  *)
(* a row does not tell its last stay: nothing is claimed of it any more.   *)
EXTENDS BackendInvariant

Bounds ==
  [room |-> 3, records |-> 4, stage |-> 3, minutes |-> 4, attendance |-> 4, files |-> 5,
   vip |-> 8, plan |-> 5, signup |-> 5, account |-> 4, recovery |-> 6, login |-> 4,
   keys |-> 6, chat |-> 4, office |-> 7, compliance |-> 5, location |-> 4]

MCInit == Init /\ (topic = "room" => meeting.waiting_room = meeting.scheduled)
Followed == topic = "attendance" => ~outside.blurred
MCSpec == MCInit /\ [][Followed /\ Next]_vars /\ MeetingsFairness
=============================================================================
