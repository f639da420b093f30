------------------------------- MODULE TLSConfig -------------------------------
(***************************************************************************)
(* A TLSConfig of pynng/tls.py: one object over one nng_tls_config for     *)
(* each nng library there is.  A setter changes the configuration of the   *)
(* object's own library and then, without a lock, those of the others; nng *)
(* cannot undo a change, so a configuration that misses one is given up    *)
(* for good, and still has to be freed with the object.                    *)
(*                                                                         *)
(* nng is external: it refuses a setting for reasons of its own, for       *)
(* instance while an endpoint uses the configuration, and it may have been *)
(* built without TLS.                                                      *)
(***************************************************************************)
EXTENDS Integers, FiniteSets

CONSTANTS
  Thread,
  Setting   \* what a setter can set

ASSUME SettingAssumption == "nothing" \notin Setting

Lib == {"v1", "v2"}
Default == "default"

VARIABLES
  tls_libs,     \* _libs
  tls_own,      \* the library of the object's class
  tls_object,   \* "unmade", "live" or "freed"
  tls_native,   \* "none", "held", "freed" or "freed twice", for each library
  tls_setting,  \* what each native configuration is set to
  tls_entry,    \* the entry of the other library in _alt_configs
  tls_setter,   \* what each thread still has to set there, or "nothing"
  tls_mixed     \* two setters have overlapped

tlsVars == <<tls_libs, tls_own, tls_object, tls_native, tls_setting, tls_entry,
             tls_setter, tls_mixed>>

TlsIdle(t) == tls_setter[t] = "nothing"
Other == CHOOSE l \in Lib : l # tls_own

TlsInit ==
  /\ tls_libs \in {{"v1"}, Lib}
  /\ tls_own \in tls_libs
  /\ tls_object = "unmade"
  /\ tls_native = [l \in Lib |-> "none"]
  /\ tls_setting = [l \in Lib |-> Default]
  /\ tls_entry = "missing"
  /\ tls_setter = [t \in Thread |-> "nothing"]
  /\ tls_mixed = FALSE

------------------------------------------------------------------------------

(* pynng.v2 is imported: _register_lib.                                    *)
ImportV2 ==
  /\ "v2" \notin tls_libs
  /\ tls_libs' = Lib
  /\ UNCHANGED <<tls_own, tls_object, tls_native, tls_setting, tls_entry,
                 tls_setter, tls_mixed>>

(* __init__.  A library built without TLS is unavailable, one that is not  *)
(* imported is missing.  No other thread knows the object, and when an     *)
(* allocation or a setter fails __del__ frees what it has.                 *)
MakeTls ==
  /\ tls_object = "unmade"
  /\ \/ /\ tls_object' = "live"
        /\ \E v \in Setting, entry \in {"usable", "unsupported", "missing"} :
             /\ entry = "missing" <=> Other \notin tls_libs
             /\ tls_entry' = entry
             /\ LET made == IF entry = "usable" THEN Lib ELSE {tls_own} IN
                /\ tls_native' = [l \in Lib |-> IF l \in made THEN "held"
                                                ELSE "none"]
                /\ tls_setting' = [l \in Lib |-> IF l \in made THEN v
                                                 ELSE Default]
     \/ /\ tls_object' = "freed"
        /\ UNCHANGED <<tls_native, tls_setting, tls_entry>>
  /\ UNCHANGED <<tls_libs, tls_own, tls_setter, tls_mixed>>

(* _apply_everywhere, the object's own library: an error leaves everything *)
(* as it was.                                                              *)
ApplyOwn(t, v) ==
  /\ tls_object = "live" /\ TlsIdle(t)
  /\ \/ /\ tls_setting' = [tls_setting EXCEPT ![tls_own] = v]
        /\ tls_setter' = [tls_setter EXCEPT ![t] = v]
        /\ tls_mixed' = (tls_mixed \/ \E u \in Thread : ~TlsIdle(u))
     \/ UNCHANGED <<tls_setting, tls_setter, tls_mixed>>
  /\ UNCHANGED <<tls_libs, tls_own, tls_object, tls_native, tls_entry>>

(* "list(self._alt_configs.items())" had a configuration.                  *)
SeenUsable == tls_entry = "usable" \/ (tls_entry = "diverged" /\ tls_mixed)

(* Mutation: a configuration that missed a setting is still used.          *)
ApplyOther_KeepsUsable(t) ==
  /\ ~TlsIdle(t)
  /\ tls_setter' = [tls_setter EXCEPT ![t] = "nothing"]
  /\ \/ /\ SeenUsable
        /\ tls_setting' = [tls_setting EXCEPT ![Other] = tls_setter[t]]
     \/ UNCHANGED tls_setting
  /\ UNCHANGED <<tls_libs, tls_own, tls_object, tls_native, tls_entry, tls_mixed>>

(* The other library: unless it is unavailable already, an error makes it  *)
(* so, and is raised.  The entry was read before, so that another thread   *)
(* may have given the configuration up since.                              *)
ApplyOther(t) ==
  /\ ~TlsIdle(t)
  /\ tls_setter' = [tls_setter EXCEPT ![t] = "nothing"]
  /\ \/ /\ SeenUsable
        /\ tls_setting' = [tls_setting EXCEPT ![Other] = tls_setter[t]]
        /\ UNCHANGED tls_entry
     \/ /\ SeenUsable
        /\ tls_entry' = "diverged"
        /\ UNCHANGED tls_setting
     \/ /\ tls_entry # "usable"
        /\ UNCHANGED <<tls_entry, tls_setting>>
  /\ UNCHANGED <<tls_libs, tls_own, tls_object, tls_native, tls_mixed>>

(* _config_for: is there a configuration for the library?                  *)
ConfigFor(l) == l = tls_own \/ tls_entry = "usable"

(* Mutation: a diverged configuration is not freed.                        *)
Frees_Usable == {tls_own} \cup (IF tls_entry = "usable" THEN {Other} ELSE {})

(* What __del__ frees.                                                     *)
Frees == {tls_own} \cup
         (IF tls_entry \in {"usable", "diverged"} THEN {Other} ELSE {})

(* __del__, when nothing refers to the object.                             *)
FreeTls ==
  /\ tls_object = "live"
  /\ \A t \in Thread : TlsIdle(t)
  /\ tls_object' = "freed"
  /\ tls_native' = [l \in Lib |-> IF l \notin Frees THEN tls_native[l]
                                  ELSE IF tls_native[l] = "held" THEN "freed"
                                  ELSE "freed twice"]
  /\ UNCHANGED <<tls_libs, tls_own, tls_setting, tls_entry, tls_setter, tls_mixed>>

------------------------------------------------------------------------------
(* Properties.                                                             *)

TlsTypeOK ==
  /\ tls_libs \in {{"v1"}, Lib} /\ tls_own \in tls_libs
  /\ tls_object \in {"unmade", "live", "freed"}
  /\ tls_native \in [Lib -> {"none", "held", "freed", "freed twice"}]
  /\ tls_setting \in [Lib -> Setting \cup {Default}]
  /\ tls_entry \in {"usable", "unsupported", "missing", "diverged"}
  /\ tls_setter \in [Thread -> Setting \cup {"nothing"}]
  /\ tls_mixed \in BOOLEAN

(* "its setters reach every library at once" (tls.py:14): a library that   *)
(* an endpoint can get a configuration for has the settings of all the     *)
(* others, whichever setter failed in whichever library, once no setter is *)
(* under way and as long as no two of them overlapped, which nothing       *)
(* forbids; and a configuration is freed once, with the object.            *)
TlsAgrees ==
  /\ (tls_object = "live" /\ ~tls_mixed /\ \A t \in Thread : TlsIdle(t)) =>
       \A l \in Lib : ConfigFor(l) => tls_setting[l] = tls_setting[tls_own]
  /\ \A l \in Lib : ConfigFor(l) /\ tls_object = "live" => tls_native[l] = "held"
  /\ tls_object = "freed" => \A l \in Lib : tls_native[l] \in {"none", "freed"}
=============================================================================
