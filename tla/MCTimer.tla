------------------------------- MODULE MCTimer -------------------------------
(* The instances of the timer wheel that TLC checks. *)
EXTENDS Timer

CONSTANTS t1, t2

MCApp(driver, ops, max_gap) ==
  [driver |-> driver, ops |-> ops, max_gap |-> max_gap]

AnyApps ==
  {MCApp("thread", {"add", "destroy"}, 3),
   MCApp("thread", {"add_not_running", "remove"}, 3),
   MCApp("anytime", {"add", "remove"}, 2),
   MCApp("punctual", {"add", "destroy"}, 3)}

LateApps == {MCApp("anytime", {"add", "remove"}, 3)}
==============================================================================
