--------------------------- MODULE DeviceCloseProofs ---------------------------
(***************************************************************************)
(* That no device outlives the close of a socket and that only live aios   *)
(* are listed, for any number of sockets and calls and wherever finalizers *)
(* run.                                                                    *)
(***************************************************************************)
EXTENDS DeviceClose, TLAPS

(* A socket is being closed, or closed, exactly if its flag is set.        *)
ClosedOK == \A s \in Socket : s \in socket_closed <=> closer[s] # "open"

(* A running device has a call that waits for it, and an aio is freed last.*)
CallOK ==
  \A d \in Device : /\ device[d] = "running" => call[d] = "waiting"
                    /\ d \in aio_freed => call[d] = "ended"

(* The sockets list an aio from its start to its end ...                   *)
ListedOK ==
  \A s \in Socket, d \in Device :
    /\ s \in owners[d] /\ call[d] = "waiting" => d \in device_aios[s]
    /\ d \in device_aios[s] => call[d] \in {"waiting", "stopping", "forgetting"}

(* ... and between the check and the start, which hold the lock, no close  *)
(* of a socket goes past its flag.                                         *)
StartingOK ==
  \A d \in Device : call[d] = "starting" =>
    \A s \in owners[d] : closer[s] \in {"open", "called"}

Inv == /\ TypeOK /\ ClosedOK /\ CallOK /\ ListedOK /\ StartingOK
       /\ NoDeviceOutlivesClose

------------------------------------------------------------------------------
(* The invariant holds at the start: nothing was called.                   *)
LEMMA InitInv == Init => Inv
  BY ActorAssumption
  DEF Init, Inv, TypeOK, ClosedOK, CallOK, ListedOK, StartingOK,
      NoDeviceOutlivesClose, Actor

(* A step of a call of device() or adevice() preserves the invariant.      *)
LEMMA CallSteps ==
  ASSUME Inv, NEW d \in Device,
         \/ Begin(d) \/ BeginRefused(d) \/ LeaveAio(d)
         \/ Run(d) \/ CancelTask(d) \/ DeviceEnds(d)
  PROVE  Inv'
<1> USE ActorAssumption
    DEF Inv, TypeOK, ClosedOK, CallOK, ListedOK, StartingOK,
        NoDeviceOutlivesClose, Actor, callVars, nngVars, socketVars
<1>1. CASE Begin(d)
  BY <1>1 DEF Begin, Goto
<1>2. CASE StartEnter(d)
  BY <1>2 DEF StartEnter, Goto, Acquire
<1>3. CASE StartRefused(d)
  BY <1>3 DEF StartRefused, Goto, Release
(* The check finds every flag clear, so no close has begun.                *)
<1>4. CASE StartChecked(d)
  BY <1>4 DEF StartChecked, Refused, Goto
<1>5. CASE StartDevice(d)
  BY <1>5 DEF StartDevice, Goto, Release
<1>6. CASE DeviceOver(d)
  BY <1>6 DEF DeviceOver, Goto
<1>7. CASE StopEnter(d)
  BY <1>7 DEF StopEnter, Goto, Acquire
<1>8. CASE StopDevice(d)
  BY <1>8 DEF StopDevice, Forgets, Goto, Release
<1>9. CASE FreeAio(d)
  BY <1>9 DEF FreeAio, Goto
<1>10. CASE CancelTask(d)
  BY <1>10 DEF CancelTask
<1>11. CASE DeviceEnds(d)
  BY <1>11 DEF DeviceEnds
<1>12. CASE BeginRefused(d)
  BY <1>12 DEF BeginRefused, Goto
<1>13. CASE LeaveAio(d)
  BY <1>13 DEF LeaveAio, Goto
<1>14. QED
  BY <1>12, <1>13, <1>1, <1>2, <1>3, <1>4, <1>5, <1>6, <1>7, <1>8, <1>9, <1>10, <1>11
  DEF Run

(* A step of a close preserves the invariant.                              *)
LEMMA CloseSteps ==
  ASSUME Inv, NEW s \in Socket, Close(s) \/ FinishClose(s)
  PROVE  Inv'
<1> USE ActorAssumption
    DEF Inv, TypeOK, ClosedOK, CallOK, ListedOK, StartingOK,
        NoDeviceOutlivesClose, Actor, callVars, nngVars, socketVars
<1>1. CASE Close(s)
  BY <1>1 DEF Close
<1>2. CASE EndDevices(s)
  BY <1>2 DEF EndDevices, Acquire
(* Every device that runs for the socket is listed there, so the wait is   *)
(* for all of them.                                                        *)
<1>3. CASE DevicesEnded(s)
  BY <1>3 DEF DevicesEnded, Release
<1>4. CASE CloseFn(s)
  BY <1>4 DEF CloseFn
<1>5. QED
  BY <1>1, <1>2, <1>3, <1>4 DEF FinishClose

(* A finalizer preserves the invariant, on whatever thread it runs.        *)
LEMMA FinalizerSteps ==
  ASSUME Inv, NEW a \in Actor,
         \/ \E s \in Socket : FinalizeSocket(s, a)
         \/ \E d \in Device : FinalizeAio(d, a) \/ CollectCoroutine(d, a)
  PROVE  Inv'
<1> USE ActorAssumption
    DEF Inv, TypeOK, ClosedOK, CallOK, ListedOK, StartingOK,
        NoDeviceOutlivesClose, Actor, callVars, nngVars, socketVars
<1>1. CASE \E s \in Socket : FinalizeSocket(s, a)
  BY <1>1 DEF FinalizeSocket
<1>2. CASE \E d \in Device : CollectCoroutine(d, a)
  BY <1>2 DEF CollectCoroutine
<1>3. CASE \E d \in Device : FinalizeAio(d, a)
  BY <1>3 DEF FinalizeAio, Goto
<1>4. QED
  BY <1>1, <1>2, <1>3

(* Nothing changes in a stuttering step.                                   *)
LEMMA StutterInv == Inv /\ UNCHANGED vars => Inv'
  BY DEF Inv, TypeOK, ClosedOK, CallOK, ListedOK, StartingOK,
         NoDeviceOutlivesClose, vars

(* The invariant holds throughout.                                         *)
LEMMA InvHolds == Spec => []Inv
<1>1. Inv /\ [Next \/ Finished]_vars => Inv'
  BY CallSteps, CloseSteps, FinalizerSteps, StutterInv DEF Next, Finished
<1>2. QED
  BY InitInv, <1>1, PTL DEF Spec

(* No variable leaves its range, and the device lock is with whoever is    *)
(* inside a section.                                                       *)
THEOREM TypeCorrect == Spec => []TypeOK
  BY InvHolds, PTL DEF Inv

(* Closing a socket ends its devices: none runs when nng's close begins,   *)
(* though the flag that stops a start is set without the device lock.      *)
THEOREM ClosedSocketHasNoDevice == Spec => []NoDeviceOutlivesClose
  BY InvHolds, PTL DEF Inv

(* Close aborts and waits for aios that are not freed.                     *)
THEOREM ListedIsLive == Spec => []ListedAioLives
<1>1. Inv => ListedAioLives
  BY DEF Inv, TypeOK, CallOK, ListedOK, ListedAioLives
<1>2. QED
  BY InvHolds, <1>1, PTL
=============================================================================
