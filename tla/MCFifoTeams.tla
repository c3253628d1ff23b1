----------------------------- MODULE MCFifoTeams -----------------------------
(***************************************************************************)
(* Fifo with different sets of threads: which of them take part is chosen  *)
(* at the start, the others never do.  The steps are those of Fifo.        *)
(***************************************************************************)
EXTENDS MCFifo

Teams == {Producers \cup Consumers, Pollers}

TeamInit ==
  /\ fifo = [f \in Fifos |-> InitRing]
  /\ out = [f \in Fifos |-> NoMsg]
  /\ read_poll = [f \in Fifos |-> Null]
  /\ write_poll = [f \in Fifos |-> Null]
  /\ group = [g \in Pollers |-> [ready |-> {}, mask |-> {}, start_pos |-> 0]]
  /\ \E team \in Teams :
       pc = [t \in Threads |-> IF t \in team THEN "idle" ELSE "absent"]
  /\ call = [t \in Threads |-> NoCall]

(* Pollers send one message only: nothing they do depends on its value.    *)
OneMsg == CHOOSE m \in Msgs : TRUE

PollersSendOne ==
  (\E t \in Pollers : pc[t] # "absent") =>
    \A f \in Fifos : \A i \in DOMAIN fifo[f].queue :
      fifo'[f].queue[i] \in {fifo[f].queue[i], OneMsg}

TeamSpec == TeamInit /\ [][Next]_vars
=============================================================================
