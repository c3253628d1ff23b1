---------------------------- MODULE Accelerator ----------------------------
(***************************************************************************)
(* Accelerator pipelines (include/xdp2/accelerator.h,                      *)
(* lib/xdp2/accelerator.c).  A pipeline is a row of stages 0 .. N-1; the   *)
(* handler of a stage reads from the pipe of the stage before it and       *)
(* writes into its own, the first one reads the input and the last one     *)
(* writes the output.  __xdp2_run_pipeline_d and _p run them round robin   *)
(* in one thread: a step of this module is one call of a handler with what *)
(* the loops do before and after it.  Bytes and packets are both items     *)
(* here: the two functions, and the D and P cases, differ only in types.   *)
(*                                                                         *)
(* The handlers are the user's.  What is assumed of them (Handles) is what *)
(* those of test_accel.c do: they relay items in order and may keep up to  *)
(* Hold of them.  A handler that is asked to finish and still keeps some   *)
(* writes them or returns -EAGAIN (add_pd); only where there is no room it *)
(* may also return 0 (add_dp), and then counts as done.  The last one      *)
(* returns no negative value: it would fail the assertion of               *)
(* output_last_stage, which compares it with an unsigned size.             *)
(***************************************************************************)
EXTENDS Integers, Sequences

CONSTANTS
    NumStages,      \* stages of the pipeline
    Size,           \* items a pipe has room for (pipe_size)
    Input,          \* items given to a run
    Hold,           \* most items a handler keeps between two calls
    Fails           \* stages whose handler may return an error

ASSUME PipelineAssumption ==
    /\ NumStages \in Nat /\ NumStages >= 2
    /\ Size \in Nat \ {0}
    /\ Input \in Nat
    /\ Hold \in Nat
    /\ Fails \subseteq 0 .. NumStages - 2

VARIABLES
    pipe,       \* the pipes: cons_ptr, prod_ptr, pipe_full and the array
    held,       \* what each handler keeps
    input,      \* what is left of the input
    output,     \* what was written to the output
    error,      \* *error and *error_stage
    at,         \* where the run is
    stream,     \* history: what the output should become
    told,       \* history: stages whose handler was called without input
    gave_up,    \* history: those that then returned 0 and keep something
    eager       \* history: the last handler never left or kept anything

vars == <<pipe, held, input, output, error, at, stream, told, gave_up,
          eager>>

Stages == 0 .. NumStages - 1

Last == NumStages - 1

Pipes == 0 .. NumStages - 2

Items == 0 .. Input

EAGAIN == 11

EIO == 5

-----------------------------------------------------------------------------
(***************************************************************************)
(* Pipes.                                                                  *)
(***************************************************************************)
check_pipe(q) ==
    /\ q.cons_ptr < Size
    /\ q.prod_ptr < Size
    /\ q.pipe_full => q.cons_ptr = q.prod_ptr

empty_right(q) ==
    CASE q.pipe_full -> 0
      [] ~q.pipe_full /\ q.prod_ptr >= q.cons_ptr -> Size - q.prod_ptr
      [] OTHER -> q.cons_ptr - q.prod_ptr

filled_right(q) ==
    IF ~q.pipe_full /\ q.prod_ptr >= q.cons_ptr
    THEN q.prod_ptr - q.cons_ptr
    ELSE Size - q.cons_ptr

empty(q) == q.cons_ptr = q.prod_ptr /\ ~q.pipe_full

occupancy(q) ==
    IF q.pipe_full THEN Size ELSE (q.prod_ptr + Size - q.cons_ptr) % Size

\* The items to the right of the consumer pointer, as a handler sees them.
Readable(q) == [k \in 1 .. filled_right(q) |-> q.data[q.cons_ptr + k - 1]]

\* All the items in a pipe.
Contents(q) == [k \in 1 .. occupancy(q) |-> q.data[(q.cons_ptr + k - 1) % Size]]

Madjust_output_pipe_NeverFull(q, out) ==
    IF out = <<>> THEN q
    ELSE [q EXCEPT !.prod_ptr = (@ + Len(out)) % Size,
                   !.data = [k \in 0 .. Size - 1 |->
                       IF k \in q.prod_ptr .. q.prod_ptr + Len(out) - 1
                       THEN out[k - q.prod_ptr + 1] ELSE q.data[k]]]

\* The handler wrote the items out at the producer pointer.
adjust_output_pipe(q, out) ==
    LET end == q.prod_ptr + Len(out)
        prod_ptr == IF end = Size THEN 0 ELSE end
    IN IF out = <<>> THEN q
       ELSE [q EXCEPT !.prod_ptr = prod_ptr,
                      !.pipe_full = @ \/ prod_ptr = q.cons_ptr,
                      !.data = [k \in 0 .. Size - 1 |->
                          IF k \in q.prod_ptr .. end - 1
                          THEN out[k - q.prod_ptr + 1] ELSE q.data[k]]]

\* The end of output_stage and output_last_stage.
consume(q, consumed) ==
    IF consumed = 0 THEN q
    ELSE [q EXCEPT !.cons_ptr = IF @ + consumed = Size THEN 0 ELSE @ + consumed,
                   !.pipe_full = FALSE]

-----------------------------------------------------------------------------
(***************************************************************************)
(* A call of the handler of stage i with the items avail and room for      *)
(* space: it takes c of them, writes out, keeps keep and returns ret.      *)
(***************************************************************************)
Handles(i, avail, space, c, out, keep, ret) ==
    /\ held[i] \o SubSeq(avail, 1, c) = out \o keep
    /\ Len(out) <= space
    /\ Len(keep) <= Hold
    /\ space > 0 /\ (avail # <<>> \/ held[i] # <<>>) => c > 0 \/ out # <<>>
    /\ \/ out # <<>> /\ ret = Len(out)
       \/ out = <<>> /\ ret = 0
          /\ (avail = <<>> /\ space > 0 /\ i # Last => keep = <<>>)
       \/ out = <<>> /\ ret = -EAGAIN /\ keep # <<>> /\ i # Last
       \/ out = <<>> /\ ret = -EIO /\ c > 0 /\ i \in Fails

\* The ways to split what the handler has into what it writes and keeps.
Calls(i, avail, space) ==
    {r \in [c : 0 .. Len(avail), p : 0 .. space, ret : {0, -EAGAIN, -EIO} \cup 1 .. space] :
        LET all == held[i] \o SubSeq(avail, 1, r.c)
        IN /\ r.p <= Len(all)
           /\ Handles(i, avail, space, r.c, SubSeq(all, 1, r.p),
                      SubSeq(all, r.p + 1, Len(all)), r.ret)}

Written(i, avail, r) == SubSeq(held[i] \o SubSeq(avail, 1, r.c), 1, r.p)

Kept(i, avail, r) ==
    LET all == held[i] \o SubSeq(avail, 1, r.c) IN SubSeq(all, r.p + 1, Len(all))

\* output_to_pipe_d_ and output_to_pipe_p_: what the pipe of stage i becomes.
output_to_pipe(i, opipe, avail, r) == adjust_output_pipe(opipe, Written(i, avail, r))

PRODUCED_ERR(ret, stage) ==
    IF ret < 0 /\ ret # -EAGAIN /\ error.code = 0
    THEN [code |-> -ret, stage |-> stage]
    ELSE error

Told(i, avail, r) ==
    /\ told' = IF avail = <<>> THEN told \cup {i} ELSE told
    /\ gave_up' = IF avail = <<>> /\ r.ret = 0 /\ Kept(i, avail, r) # <<>>
                  THEN gave_up \cup {i} ELSE gave_up

-----------------------------------------------------------------------------
NoError == [code |-> 0, stage |-> 0]

Idle == [loop |-> "idle", stage |-> 0, done |-> FALSE, not_done |-> 1]

\* xdp2_init_pipeline sets the size of a pipe it got from malloc and nothing
\* else: the rest is assumed to be zero.
Init ==
    /\ pipe = [j \in Pipes |-> [cons_ptr |-> 0, prod_ptr |-> 0, pipe_full |-> FALSE,
                                data |-> [k \in 0 .. Size - 1 |-> 0]]]
    /\ held = [i \in Stages |-> <<>>]
    /\ input = <<>>
    /\ output = <<>>
    /\ error = NoError
    /\ at = Idle
    /\ stream = <<>>
    /\ told = {} /\ gave_up = {}
    /\ eager = TRUE

\* What handlers and pipes from stage i upwards still have, in the order in
\* which it will come out.
Flow ==
    LET below[i \in Stages] ==
            held[i] \o (IF i = 0 THEN input ELSE Contents(pipe[i - 1]) \o below[i - 1])
    IN below

\* The pipeline is called with Input items; *error is 0.
run_pipeline ==
    /\ at.loop = "idle"
    /\ input' = [k \in 1 .. Input |-> k]
    /\ output' = <<>>
    /\ error' = NoError
    /\ at' = [Idle EXCEPT !.loop = "main"]
    /\ stream' = Flow[Last] \o [k \in 1 .. Input |-> k]
    /\ told' = {} /\ gave_up' = {}
    /\ UNCHANGED <<pipe, held, eager>>

-----------------------------------------------------------------------------
(***************************************************************************)
(* The loops.  main: first stage, intermediate stages, last stage, until   *)
(* the first one has no input and returns 0.  drain: intermediate stages   *)
(* from not_done on and the last stage, until the intermediate ones are    *)
(* done.  final: the last stage, once.                                     *)
(***************************************************************************)
MDrain_OneLess(start) ==
    IF start < Last - 1
    THEN [loop |-> "drain", stage |-> start, done |-> TRUE, not_done |-> start]
    ELSE [loop |-> "final", stage |-> Last, done |-> TRUE, not_done |-> start]

\* From the first stage that is not done to the last one.
Drain(start) ==
    IF start < Last
    THEN [loop |-> "drain", stage |-> start, done |-> TRUE, not_done |-> start]
    ELSE [loop |-> "final", stage |-> Last, done |-> TRUE, not_done |-> start]

\* output_to_pipe for stage 0, and the rest of the main loop's body up to
\* the intermediate stages.
run_first_stage ==
    /\ at.loop = "main" /\ at.stage = 0
    /\ check_pipe(pipe[0])
    /\ \E r \in Calls(0, input, empty_right(pipe[0])) :
        /\ held' = [held EXCEPT ![0] = Kept(0, input, r)]
        /\ pipe' = [pipe EXCEPT ![0] = output_to_pipe(0, @, input, r)]
        /\ Told(0, input, r)
        /\ \/ /\ input = <<>> /\ r.ret = 0
              /\ at' = Drain(1)
              /\ UNCHANGED <<input, error>>
           \/ /\ input # <<>> \/ r.ret # 0
              /\ input' = SubSeq(input, r.c + 1, Len(input))
              /\ error' = PRODUCED_ERR(r.ret, 0)
              /\ at' = [at EXCEPT !.stage = 1, !.done = FALSE]
    /\ UNCHANGED <<output, stream, eager>>

MWaits_Never(q, done) == FALSE

\* The handler is not called: "Don't call the handler with a zero input
\* length until before the pipe is done".
Waits(q, done) == empty(q) /\ ~done

\* "The stage is done when the input pipe is empty and the handler return
\* zero".
stage_done(q, done, ret) == empty(q) /\ done /\ ret = 0

Mrun_all_intermedate_NoStart(done) ==
    at' = [at EXCEPT !.stage = @ + 1, !.done = done]

\* run_all_intermedate goes on to the next stage and advances start if the
\* one it ran is done.
run_all_intermedate(done) ==
    at' = [at EXCEPT !.stage = @ + 1, !.done = done, !.not_done = IF done THEN @ + 1 ELSE @]

run_intermediate_stage ==
    LET i == at.stage
        ipipe == pipe[i - 1]
        opipe == pipe[i]
    IN /\ at.loop \in {"main", "drain"} /\ i \in 1 .. Last - 1
       /\ check_pipe(ipipe) /\ check_pipe(opipe)
       /\ \/ /\ Waits(ipipe, at.done)
             /\ run_all_intermedate(FALSE)
             /\ UNCHANGED <<pipe, held, error, told, gave_up>>
          \/ /\ ~Waits(ipipe, at.done)
             /\ \E r \in Calls(i, Readable(ipipe), empty_right(opipe)) :
                 /\ held' = [held EXCEPT ![i] = Kept(i, Readable(ipipe), r)]
                 /\ pipe' = [pipe EXCEPT ![i - 1] = consume(@, r.c),
                                         ![i] = output_to_pipe(i, @, Readable(ipipe), r)]
                 /\ error' = PRODUCED_ERR(r.ret, i)
                 /\ run_all_intermedate(stage_done(ipipe, at.done, r.ret))
                 /\ Told(i, Readable(ipipe), r)
       /\ UNCHANGED <<input, output, stream, eager>>

\* Where the loops go after the last stage.
AfterLast ==
    CASE at.loop = "main" -> [at EXCEPT !.stage = 0, !.not_done = 1]
      [] at.loop = "drain" -> Drain(at.not_done)
      [] at.loop = "final" -> Idle

\* The caller gives the room that all the items need.
OutputSize == Len(stream) - Len(output)

\* run_last_stage compares the pointer done, which is never null, and so
\* always calls the handler.
run_last_stage ==
    LET ipipe == pipe[Last - 1]
    IN /\ at.loop \in {"main", "drain", "final"} /\ at.stage = Last
       /\ check_pipe(ipipe)
       /\ \E r \in Calls(Last, Readable(ipipe), OutputSize) :
           /\ held' = [held EXCEPT ![Last] = Kept(Last, Readable(ipipe), r)]
           /\ pipe' = [pipe EXCEPT ![Last - 1] = consume(@, r.c)]
           /\ output' = output \o Written(Last, Readable(ipipe), r)
           /\ at' = AfterLast
           /\ eager' = (eager /\ r.c = filled_right(ipipe) /\ held'[Last] = <<>>)
           /\ Told(Last, Readable(ipipe), r)
       /\ UNCHANGED <<input, error, stream>>

Next ==
    \/ run_pipeline
    \/ run_first_stage
    \/ run_intermediate_stage
    \/ run_last_stage

Spec == Init /\ [][Next]_vars

\* One thread runs the loops without waiting for anything.
FairSpec == Spec /\ WF_vars(Next)

-----------------------------------------------------------------------------
(***************************************************************************)
(* Properties.                                                             *)
(***************************************************************************)
ItemSeq(s) == \A k \in DOMAIN s : s[k] \in Items

\* Pointers stay within the arrays, counters within the stages, and the
\* assertions of __xdp2_pipe_check_pipe ("Check pipe for legal pointers")
\* hold for all pipes of a pipeline that runs.
TypeOK ==
    /\ \A j \in Pipes :
        /\ pipe[j].cons_ptr \in 0 .. Size - 1 /\ pipe[j].prod_ptr \in 0 .. Size - 1
        /\ pipe[j].pipe_full \in BOOLEAN
        /\ pipe[j].data \in [0 .. Size - 1 -> Items]
    /\ \A i \in Stages : Len(held[i]) <= Hold /\ ItemSeq(held[i])
    /\ ItemSeq(input) /\ ItemSeq(output) /\ ItemSeq(stream)
    /\ error \in [code : {0, EIO}, stage : Stages]
    /\ at \in [loop : {"idle", "main", "drain", "final"}, stage : Stages,
               done : BOOLEAN, not_done : 1 .. Last]
    /\ gave_up \subseteq told /\ told \subseteq Stages
    /\ eager \in BOOLEAN
    /\ at.loop # "idle" => \A j \in Pipes : check_pipe(pipe[j])

\* Nothing is lost, duplicated or reordered on the way, whatever the
\* handlers take, write and keep in a call and wherever the pipes wrap.
InOrder == TypeOK /\ output \o Flow[Last] = stream

\* What handlers and pipes before stage i still have, except what the handlers
\* keep that returned 0 all the same.
NothingBefore(i) ==
    /\ input = <<>>
    /\ \A j \in 0 .. i - 1 :
        /\ empty(pipe[j])
        /\ held[j] # <<>> => j \in gave_up

\* A handler before the last that is called without input has had all its
\* input ("it knows that's the end of the possible input"): nothing is left
\* in the pipes before it, and only those handlers before it keep something
\* that returned 0 without writing it, as add_dp of test_accel.c does when the
\* pipe behind it is full.  They count as done, and what they keep comes out
\* in the next run.
EndIsEnd == \A i \in told \ {Last} : NothingBefore(i)

\* When a run returns, all its input has gone through the stages before the
\* last, whatever the handlers kept in between; only one that returned 0 without
\* writing what it keeps (EndIsEnd) still has some.  And if the last handler
\* takes all it is given in every call, nothing is left in the last pipe for
\* the next run to find.  A last handler that leaves something is not called
\* again, for all that "finish last stage" and its loop (accelerator.c) say.
AllDelivered ==
    at.loop = "idle" =>
        /\ \A j \in 0 .. Last - 1 : held[j] # <<>> => j \in gave_up
        /\ input = <<>> /\ \A j \in 0 .. Last - 2 : empty(pipe[j])
        /\ eager => empty(pipe[Last - 1]) /\ held[Last] = <<>>

\* Every run returns.
Returns == at.loop # "idle" ~> at.loop = "idle"
=============================================================================
