----------------------------- MODULE PipeCallbacks -----------------------------
(***************************************************************************)
(* What a Socket promises about its pipe callbacks (add_pre_pipe_connect_cb *)
(* and its siblings in pynng/_base.py) and about Socket.pipes:             *)
(*   - for each pipe the callbacks are called at most once, in the order   *)
(*     pre-connect, post-connect, remove, and never two at a time;         *)
(*   - a pipe is in Socket.pipes from its first callback until its last    *)
(*     has returned, or until it is rejected, and after that no callback   *)
(*     of it is called and it never comes back.                            *)
(***************************************************************************)
EXTENDS Sequences

CONSTANT Pipe

VARIABLES
  calls,    \* the callbacks called so far for each pipe, in order
  running,  \* the callback that runs for each pipe, or "none"
  listed    \* Socket.pipes

cvars == <<calls, running, listed>>

Init ==
  /\ calls = [p \in Pipe |-> <<>>]
  /\ running = [p \in Pipe |-> "none"]
  /\ listed = {}

Call(p, kind) ==
  /\ running[p] = "none"
  /\ running' = [running EXCEPT ![p] = kind]
  /\ calls' = [calls EXCEPT ![p] = Append(@, kind)]

Connecting(p) ==
  /\ calls[p] = <<>>
  /\ Call(p, "pre")
  /\ listed' = listed \cup {p}

Connected(p) ==
  /\ calls[p] = <<"pre">>
  /\ p \in listed
  /\ Call(p, "post")
  /\ UNCHANGED listed

Removed(p) ==
  /\ p \in listed
  /\ calls[p] \in {<<"pre">>, <<"pre", "post">>}
  /\ Call(p, "remove")
  /\ UNCHANGED listed

(* The pre-connect callback may have rejected the pipe.                    *)
Return(p) ==
  /\ running[p] # "none"
  /\ running' = [running EXCEPT ![p] = "none"]
  /\ \/ running[p] # "remove" /\ UNCHANGED listed
     \/ running[p] # "post" /\ listed' = listed \ {p}
  /\ UNCHANGED calls

Next == \E p \in Pipe : Connecting(p) \/ Connected(p) \/ Removed(p) \/ Return(p)

Spec == Init /\ [][Next]_cvars
=============================================================================
