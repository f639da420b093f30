------------------------------ MODULE DeviceClose ------------------------------
(***************************************************************************)
(* Devices and the sockets they forward between: device() and adevice()    *)
(* (pynng/nng.py, DeviceAIO of pynng/_aio.py) against Socket.close         *)
(* (_do_close, _finish_close and _end_devices of pynng/_base.py).          *)
(*                                                                         *)
(* One lock, taken by _device_section, guards every Socket._device_aios    *)
(* and the start and end of every device aio.  It is not reentrant, and a  *)
(* finalizer runs wherever its thread happens to be: a Socket's finalizer  *)
(* closes the socket, and a coroutine that is collected while it waits in  *)
(* DeviceAIO.run runs the finally block of run.  The thread it runs on     *)
(* goes on when it has returned.                                           *)
(*                                                                         *)
(* The mark of _device_section covers a little more than the lock, before  *)
(* and after it, where a finalizer may do its work on either thread.       *)
(*                                                                         *)
(* nng is external: a device ends when it is aborted or by itself, and     *)
(* closes the sockets it owns.                                             *)
(***************************************************************************)
EXTENDS Integers, FiniteSets

CONSTANTS
  Socket,
  SyncDevice,   \* calls of device(), each on its own thread
  AsyncDevice,  \* calls of adevice()
  Nobody

Device == SyncDevice \cup AsyncDevice
Actor == Device \cup Socket  \* a socket stands for the thread that closes it

ASSUME DeviceAssumption == SyncDevice \cap AsyncDevice = {}
ASSUME ActorAssumption == Device \cap Socket = {} /\ Nobody \notin Actor

VARIABLES
  \* the calls
  owners,     \* the sockets of each device
  call,       \* where each call is
  outcome,    \* "none", "closed" for Closed at the start, or "over"
  \* nng's device aios
  device,     \* "idle", "running" or "over"
  aborted,    \* nng_aio_abort or nng_aio_cancel was called
  aio_freed,
  \* the sockets
  device_aios,    \* Socket._device_aios
  socket_closed,  \* the sockets whose _socket_closed is set
  closer,         \* where the close of each socket is
  \* threads
  device_lock,  \* the holder
  host          \* whose thread runs an actor as a finalizer

callVars == <<owners, call, outcome>>
nngVars == <<device, aborted, aio_freed>>
socketVars == <<device_aios, socket_closed, closer>>
vars == <<owners, call, outcome, device, aborted, aio_freed, device_aios,
          socket_closed, closer, device_lock, host>>

Init ==
  /\ owners = [d \in Device |-> {}]
  /\ call = [d \in Device |-> "new"]
  /\ outcome = [d \in Device |-> "none"]
  /\ device = [d \in Device |-> "idle"]
  /\ aborted = {} /\ aio_freed = {}
  /\ device_aios = [s \in Socket |-> {}]
  /\ socket_closed = {}
  /\ closer = [s \in Socket |-> "open"]
  /\ device_lock = Nobody
  /\ host = [a \in Actor |-> Nobody]

Ended(a) == IF a \in Device THEN call[a] = "ended" ELSE closer[a] = "closed"

(* A finalizer runs on the actor's thread.                                 *)
Suspended(a) == \E f \in Actor : host[f] = a /\ ~Ended(f)

Active(a) ==
  /\ ~Suspended(a)
  /\ IF a \in Device THEN call[a] \notin {"new", "ended"}
     ELSE closer[a] \notin {"open", "closed"}

Acquire(a) == device_lock = Nobody /\ device_lock' = a

(* Mutation: the lock is kept.                                             *)
Release_Never == UNCHANGED device_lock

Release == device_lock' = Nobody

Goto(d, label) == call' = [call EXCEPT ![d] = label]

------------------------------------------------------------------------------
(* A call of device() or adevice(): _start_device, the wait, _stop_device. *)

(* device(), or a DeviceAIO is made.  A socket that is given as a bare     *)
(* nng_socket is nobody's.                                                 *)
Begin(d) ==
  /\ call[d] = "new"
  /\ \E S \in SUBSET Socket :
       /\ Cardinality(S) <= 2
       /\ \A s \in S : host[s] = Nobody
       /\ owners' = [owners EXCEPT ![d] = S]
  /\ Goto(d, "entering")
  /\ UNCHANGED <<outcome, nngVars, socketVars, device_lock, host>>

(* _device_sockets: the sockets are of different nng versions.             *)
BeginRefused(d) ==
  /\ call[d] = "new"
  /\ Goto(d, "ended")
  /\ UNCHANGED <<owners, outcome, nngVars, socketVars, device_lock, host>>

(* A DeviceAIO whose with block is left before it ran: _free.              *)
LeaveAio(d) ==
  /\ d \in AsyncDevice /\ call[d] = "entering" /\ Active(d)
  /\ Goto(d, "stopping")
  /\ UNCHANGED <<owners, outcome, nngVars, socketVars, device_lock, host>>

StartEnter(d) ==
  /\ call[d] = "entering" /\ Active(d)
  /\ Acquire(d)
  /\ Goto(d, "checking")
  /\ UNCHANGED <<owners, outcome, nngVars, socketVars, host>>

(* Mutation: a device starts on a closed socket.                           *)
Refused_Never(d) == FALSE

Refused(d) == owners[d] \cap socket_closed # {}

(* DeviceAIO.run frees in its finally block, which also forgets the aio.   *)
StartRefused(d) ==
  /\ call[d] = "checking" /\ Active(d)
  /\ Refused(d)
  /\ Release
  /\ outcome' = [outcome EXCEPT ![d] = "closed"]
  /\ Goto(d, IF d \in AsyncDevice THEN "stopping" ELSE "freeing")
  /\ UNCHANGED <<owners, nngVars, socketVars, host>>

StartChecked(d) ==
  /\ call[d] = "checking" /\ Active(d)
  /\ ~Refused(d)
  /\ Goto(d, "starting")
  /\ UNCHANGED <<owners, outcome, nngVars, socketVars, device_lock, host>>

StartDevice(d) ==
  /\ call[d] = "starting" /\ Active(d)
  /\ device' = [device EXCEPT ![d] = "running"]
  /\ device_aios' = [s \in Socket |-> IF s \in owners[d]
                                      THEN device_aios[s] \cup {d}
                                      ELSE device_aios[s]]
  /\ Release
  /\ Goto(d, "waiting")
  /\ UNCHANGED <<owners, outcome, aborted, aio_freed, socket_closed, closer,
                 host>>

(* The task of adevice() is cancelled: nng_aio_cancel.                     *)
CancelTask(d) ==
  /\ d \in AsyncDevice /\ call[d] = "waiting" /\ host[d] = Nobody
  /\ aborted' = aborted \cup {d}
  /\ UNCHANGED <<callVars, device, aio_freed, socketVars, device_lock, host>>

(* nng_aio_wait returns, or the loop resumes the task.                     *)
DeviceOver(d) ==
  /\ call[d] = "waiting" /\ Active(d)
  /\ device[d] = "over"
  /\ outcome' = [outcome EXCEPT ![d] = "over"]
  /\ Goto(d, "stopping")
  /\ UNCHANGED <<owners, nngVars, socketVars, device_lock, host>>

StopEnter(d) ==
  /\ call[d] = "stopping" /\ Active(d)
  /\ Acquire(d)
  /\ Goto(d, "forgetting")
  /\ UNCHANGED <<owners, outcome, nngVars, socketVars, host>>

(* Mutation: the aio stays in the sets.                                    *)
Forgets_Nothing(d) == UNCHANGED device_aios

Forgets(d) == device_aios' = [s \in Socket |-> device_aios[s] \ {d}]

StopDevice(d) ==
  /\ call[d] = "forgetting" /\ Active(d)
  /\ Forgets(d)
  /\ Release
  /\ Goto(d, "freeing")
  /\ UNCHANGED <<owners, outcome, nngVars, socket_closed, closer, host>>

FreeAio(d) ==
  /\ call[d] = "freeing" /\ Active(d)
  /\ aio_freed' = aio_freed \cup {d}
  /\ Goto(d, "ended")
  /\ UNCHANGED <<owners, outcome, device, aborted, socketVars, device_lock,
                 host>>

------------------------------------------------------------------------------
(* Socket.close.                                                           *)

(* A later close finds _socket_closed set and returns.                     *)
Close(s) ==
  /\ s \notin socket_closed
  /\ socket_closed' = socket_closed \cup {s}
  /\ closer' = [closer EXCEPT ![s] = "called"]
  /\ UNCHANGED <<callVars, nngVars, device_aios, device_lock, host>>

(* Mutation: the devices are not aborted.                                  *)
EndDevices_Waits(s) ==
  /\ closer[s] = "called" /\ Active(s)
  /\ Acquire(s)
  /\ closer' = [closer EXCEPT ![s] = "ending"]
  /\ UNCHANGED <<callVars, nngVars, device_aios, socket_closed, host>>

(* _end_devices aborts every device on the socket ...                      *)
EndDevices(s) ==
  /\ closer[s] = "called" /\ Active(s)
  /\ Acquire(s)
  /\ aborted' = aborted \cup device_aios[s]
  /\ closer' = [closer EXCEPT ![s] = "ending"]
  /\ UNCHANGED <<callVars, device, aio_freed, device_aios, socket_closed, host>>

(* ... and waits for them with the lock.                                   *)
DevicesEnded(s) ==
  /\ closer[s] = "ending" /\ Active(s)
  /\ \A d \in device_aios[s] : device[d] = "over"
  /\ Release
  /\ closer' = [closer EXCEPT ![s] = "closing"]
  /\ UNCHANGED <<callVars, nngVars, device_aios, socket_closed, host>>

(* close_fn, external, and the rest of _finish_close.                      *)
CloseFn(s) ==
  /\ closer[s] = "closing" /\ Active(s)
  /\ closer' = [closer EXCEPT ![s] = "closed"]
  /\ UNCHANGED <<callVars, nngVars, device_aios, socket_closed, device_lock,
                 host>>

------------------------------------------------------------------------------
(* Finalizers, on the thread of any actor.                                 *)

(* Mutation: a finalizer always does its work on the spot.                 *)
FinishesElsewhere_Never(a) == FALSE

(* _in_device_section().                                                   *)
FinishesElsewhere(a) == device_lock = a

(* Socket.__del__ of a socket that no call refers to.                      *)
FinalizeSocket(s, a) ==
  /\ s \notin socket_closed
  /\ \A d \in Device : s \in owners[d] => call[d] = "ended"
  /\ s # a /\ Active(a)
  /\ socket_closed' = socket_closed \cup {s}
  /\ closer' = [closer EXCEPT ![s] = "called"]
  /\ host' = [host EXCEPT ![s] = IF FinishesElsewhere(a) THEN Nobody ELSE a]
  /\ UNCHANGED <<callVars, nngVars, device_aios, device_lock>>

(* DeviceAIO.__del__ of one that never ran: _free.                         *)
FinalizeAio(d, a) ==
  /\ d \in AsyncDevice /\ call[d] = "entering" /\ host[d] = Nobody
  /\ d # a /\ Active(a) /\ Active(d)
  /\ Goto(d, "stopping")
  /\ host' = [host EXCEPT ![d] = IF FinishesElsewhere(a) THEN Nobody ELSE a]
  /\ UNCHANGED <<owners, outcome, nngVars, socketVars, device_lock>>

(* The coroutine of adevice() is closed, or collected with the loop it     *)
(* waits on: _free, in the finally block of run, cancels the aio and goes  *)
(* on on the same thread.                                                  *)
CollectCoroutine(d, a) ==
  /\ d \in AsyncDevice /\ call[d] = "waiting" /\ host[d] = Nobody
  /\ d # a /\ Active(a) /\ Active(d)
  /\ aborted' = aborted \cup {d}
  /\ host' = [host EXCEPT ![d] = a]
  /\ UNCHANGED <<callVars, device, aio_freed, socketVars, device_lock>>

------------------------------------------------------------------------------
(* nng, external.                                                          *)

DeviceEnds(d) ==
  /\ device[d] = "running"
  /\ device' = [device EXCEPT ![d] = "over"]
  /\ UNCHANGED <<callVars, aborted, aio_freed, socketVars, device_lock, host>>

------------------------------------------------------------------------------
(* The specification.                                                      *)

Run(d) ==
  \/ StartEnter(d) \/ StartRefused(d) \/ StartChecked(d) \/ StartDevice(d)
  \/ DeviceOver(d) \/ StopEnter(d) \/ StopDevice(d) \/ FreeAio(d)

FinishClose(s) == EndDevices(s) \/ DevicesEnded(s) \/ CloseFn(s)

Next ==
  \/ \E d \in Device : \/ Begin(d) \/ BeginRefused(d) \/ LeaveAio(d)
                      \/ Run(d) \/ CancelTask(d) \/ DeviceEnds(d)
  \/ \E s \in Socket : Close(s) \/ FinishClose(s)
  \/ \E a \in Actor : \/ \E s \in Socket : FinalizeSocket(s, a)
                      \/ \E d \in Device : FinalizeAio(d, a) \/ CollectCoroutine(d, a)

(* A coroutine was collected on a thread that holds the lock, which its    *)
(* finally block waits for: the thread waits for itself.                   *)
CollectedInSection ==
  \E d \in Device : ~Ended(d) /\ host[d] # Nobody /\ device_lock = host[d]

Finished ==
  /\ \/ \A a \in Actor : ~Active(a)
     \/ CollectedInSection
  /\ UNCHANGED vars

Spec == Init /\ [][Next \/ Finished]_vars

(* Every thread goes on, and takes the lock when nobody else wants it;     *)
(* nng ends what was aborted.  Nobody has to call, close or cancel.        *)
Fairness ==
  /\ \A d \in Device : /\ WF_vars(Run(d))
                       /\ WF_vars(d \in aborted /\ DeviceEnds(d))
  /\ \A s \in Socket : WF_vars(FinishClose(s))

FairSpec == Spec /\ Fairness

------------------------------------------------------------------------------
(* Properties.                                                             *)

(* Every variable stays in its range, and the lock is with the one actor   *)
(* inside a section.                                                       *)
TypeOK ==
  /\ owners \in [Device -> SUBSET Socket]
  /\ call \in [Device -> {"new", "entering", "checking", "starting", "waiting",
                          "stopping", "forgetting", "freeing", "ended"}]
  /\ outcome \in [Device -> {"none", "closed", "over"}]
  /\ device \in [Device -> {"idle", "running", "over"}]
  /\ aborted \subseteq Device /\ aio_freed \subseteq Device
  /\ device_aios \in [Socket -> SUBSET Device]
  /\ socket_closed \subseteq Socket
  /\ closer \in [Socket -> {"open", "called", "ending", "closing", "closed"}]
  /\ device_lock \in Actor \cup {Nobody}
  /\ host \in [Actor -> Actor \cup {Nobody}]
  /\ \A d \in Device :
       call[d] \in {"checking", "starting", "forgetting"} <=> device_lock = d
  /\ \A s \in Socket : closer[s] = "ending" <=> device_lock = s

(* "Closing a socket that a device uses ends the device": when nng's close *)
(* of a socket begins, no device that forwards for it is running, however  *)
(* the start of the device and the close interleave.  nng v2 refuses to    *)
(* close a socket that a device owns.                                      *)
NoDeviceOutlivesClose ==
  \A s \in Socket : closer[s] \in {"closing", "closed"} =>
    \A d \in Device : s \in owners[d] => device[d] # "running"

(* Close aborts and waits for live aios only: an aio is forgotten by every *)
(* socket before it is freed.                                              *)
ListedAioLives == \A s \in Socket : device_aios[s] \cap aio_freed = {}

(* Socket.close returns, whichever thread calls it and wherever finalizers *)
(* run, except that a coroutine collected inside a section hangs it.       *)
CloseReturns ==
  \A s \in Socket :
    (s \in socket_closed) ~> (closer[s] = "closed" \/ CollectedInSection)

(* device() and adevice() end once one of their sockets is closed, with    *)
(* the same exception.                                                     *)
CloseEndsDevice ==
  \A d \in Device :
    (owners[d] \cap socket_closed # {} /\ call[d] # "new")
      ~> (call[d] = "ended" \/ CollectedInSection)
=============================================================================
