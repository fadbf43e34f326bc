----------------------------- MODULE Parameters -----------------------------
(***************************************************************************)
(* A parameter of a ParameterGroup                                         *)
(* (src/infrastructure/parameters/ParameterSystem.h) that is changed from  *)
(* the user interface, by the audio processor and by the host at once: its *)
(* value, the host's copy of it, the flag that tells the user interface to *)
(* refresh and the listeners, which the parameters of the group share.     *)
(* Every update has the default flags, All, and the parameter can be       *)
(* automated.  Values are whole numbers; those up to MaxValue stand for    *)
(* the range from 0 to 1 that the parameter restricts them to.             *)
(***************************************************************************)
EXTENDS RealtimeListeners

CONSTANTS UI,          \* the user interface's thread, one of the callers
          Views,       \* the UI listeners of the parameter
          MaxValue, MaxInput, \* the largest legal value, and the largest tried
          MaxUpdates   \* bound: the parameter is updated this often

ASSUME ParameterAssumption ==
    /\ UI \in Callers
    /\ MaxValue \in Nat /\ MaxInput \in Nat /\ MaxUpdates \in Nat

VARIABLES
    value,       \* the parameter's
    host,        \* what the host believes the value is
    changedFromProcessor,
    shown,       \* the value that each UI listener read in its last callback
    pc,          \* each caller's step
    source,      \* the update that it is in: "ui", "processor" or "host"
    arg,         \* its local, value
    toNotify,    \* the UI listeners that the UI thread has yet to call
    updates,
    overlapped   \* history: the last updates were not one after the other

paramVars == <<value, host, changedFromProcessor, shown, pc, source, arg,
               toNotify, updates, overlapped>>
pVars == <<slotVars, paramVars>>

ParamInit ==
    /\ SlotsInit
    /\ value = 0 /\ host = 0 /\ changedFromProcessor = FALSE
    /\ shown = [v \in Views |-> 0]
    /\ pc = [c \in Callers |-> "idle"]
    /\ source = [c \in Callers |-> "ui"] /\ arg = [c \in Callers |-> 0]
    /\ toNotify = {} /\ updates = 0 /\ overlapped = FALSE

(* ZeroOneClamper.                                                           *)
Restricted(v) == IF v > MaxValue THEN MaxValue ELSE v

Goes(c, step) == pc' = [pc EXCEPT ![c] = step]
Ends(c) ==
    /\ Goes(c, "idle")
    /\ source' = [source EXCEPT ![c] = "ui"] /\ arg' = [arg EXCEPT ![c] = 0]
Then(c, ends, step) ==
    IF ends THEN Ends(c) ELSE Goes(c, step) /\ UNCHANGED <<source, arg>>
Busy(c) == pc[c] \notin {"idle", "notify"}

-----------------------------------------------------------------------------
(* An update begins.  The host changes its own copy before it calls back,    *)
(* to a legal value.                                                         *)
Begin(c, kind, v) ==
    /\ pc[c] = "idle" /\ updates < MaxUpdates
    /\ kind = "ui" <=> c = UI
    /\ kind = "host" => v <= MaxValue
    /\ updates' = updates + 1
    /\ source' = [source EXCEPT ![c] = kind] /\ arg' = [arg EXCEPT ![c] = v]
    /\ host' = IF kind = "host" THEN v ELSE host
    /\ overlapped' = \E d \in Callers : Busy(d)
    /\ Goes(c, "store")
    /\ UNCHANGED <<slotVars, value, changedFromProcessor, shown, toNotify>>

(* p.parameter->setValue(value); what follows depends on the function.       *)
Store(c) ==
    /\ pc[c] = "store"
    /\ value' = Restricted(arg[c])
    /\ Goes(c, IF source[c] = "host" THEN "listeners" ELSE "read")
    /\ UNCHANGED <<slotVars, host, changedFromProcessor, shown, source, arg,
                   toNotify, updates, overlapped>>

\* Mutant: the value is sent as it came.
Mutant_ReadBack(c) ==
    /\ pc[c] = "read"
    /\ Goes(c, IF source[c] = "ui" THEN "transmit" ELSE "listeners")
    /\ UNCHANGED <<slotVars, value, host, changedFromProcessor, shown, source,
                   arg, toNotify, updates, overlapped>>

(* value = p.parameter->getValue()                                           *)
ReadBack(c) ==
    /\ pc[c] = "read"
    /\ arg' = [arg EXCEPT ![c] = value]
    /\ Goes(c, IF source[c] = "ui" THEN "transmit" ELSE "listeners")
    /\ UNCHANGED <<slotVars, value, host, changedFromProcessor, shown, source,
                   toNotify, updates, overlapped>>

(* automatedTransmitChangeMessage(): before the listeners for the user       *)
(* interface, after the flag for the processor, who is done then.            *)
Transmit(c) ==
    /\ pc[c] = "transmit"
    /\ host' = arg[c]
    /\ Then(c, source[c] = "processor", "listeners")
    /\ UNCHANGED <<slotVars, value, changedFromProcessor, shown, toNotify,
                   updates, overlapped>>

CallBegins(c) ==
    /\ pc[c] = "listeners" /\ cat[c] = 0
    /\ cat' = [cat EXCEPT ![c] = 1]
    /\ UNCHANGED <<listener, locked, registrars, calling, paramVars>>

(* A step of callRTListenersFor(); after the last the user interface turns   *)
(* to its own listeners, the others to the flag.                             *)
CallStep(c) ==
    /\ pc[c] = "listeners" /\ CallMoves(c)
    /\ pc' = IF cat'[c] # 0 THEN pc
             ELSE [pc EXCEPT ![c] = IF source[c] = "ui" THEN "notify" ELSE "flag"]
    /\ toNotify' = IF pc'[UI] = "notify" /\ pc[UI] # "notify" THEN Views
                   ELSE toNotify
    /\ UNCHANGED <<value, host, changedFromProcessor, shown, source, arg,
                   updates, overlapped>>

SetFlag(c) ==
    /\ pc[c] = "flag"
    /\ changedFromProcessor' = TRUE
    /\ Then(c, source[c] = "host", "transmit")
    /\ UNCHANGED <<slotVars, value, host, shown, toNotify, updates, overlapped>>

-----------------------------------------------------------------------------
(* pulseUI(): changedFromProcessor.cas(), and the listeners if it was set.   *)

Pulse ==
    /\ pc[UI] = "idle" /\ changedFromProcessor
    /\ changedFromProcessor' = FALSE
    /\ toNotify' = Views
    /\ Goes(UI, "notify")
    /\ UNCHANGED <<slotVars, value, host, shown, source, arg, updates, overlapped>>

(* A UI listener is called and reads the value.                              *)
Notify(v) ==
    /\ pc[UI] = "notify" /\ v \in toNotify
    /\ shown' = [shown EXCEPT ![v] = value]
    /\ toNotify' = toNotify \ {v}
    /\ UNCHANGED <<slotVars, value, host, changedFromProcessor, pc, source, arg,
                   updates, overlapped>>

\* Mutant: the flag is cleared when the listeners have been called.
Mutant_Notified ==
    /\ pc[UI] = "notify" /\ toNotify = {}
    /\ changedFromProcessor' = FALSE
    /\ Ends(UI)
    /\ UNCHANGED <<slotVars, value, host, shown, toNotify, updates, overlapped>>

Notified ==
    /\ pc[UI] = "notify" /\ toNotify = {}
    /\ Ends(UI)
    /\ UNCHANGED <<slotVars, value, host, changedFromProcessor, shown, toNotify,
                   updates, overlapped>>

-----------------------------------------------------------------------------
Update(c) ==
    \/ Store(c) \/ ReadBack(c) \/ Transmit(c) \/ CallBegins(c) \/ CallStep(c)
    \/ SetFlag(c)

Refresh == Pulse \/ Notified \/ \E v \in Views : Notify(v)

(* Listeners are left alone and the updates are through.                     *)
Rest == updates = MaxUpdates /\ UNCHANGED pVars

ParamNext ==
    \/ \E c \in Callers : Update(c)
    \/ \E c \in Callers, k \in {"ui", "processor", "host"}, v \in 0 .. MaxInput :
           Begin(c, k, v)
    \/ Refresh
    \/ \E l \in Listeners :
           (Registrar(l) \/ AddBegins(l) \/ RemoveBegins(l)) /\ UNCHANGED paramVars
    \/ Rest

(***************************************************************************)
(* An update that has begun ends, and the user interface pulses for ever;  *)
(* nobody has to update a parameter or to touch the listeners.             *)
(***************************************************************************)
ParamSpec ==
    /\ ParamInit /\ [][ParamNext]_pVars
    /\ \A c \in Callers : WF_pVars(Update(c))
    /\ WF_pVars(Refresh)
-----------------------------------------------------------------------------
(* Past the store, and with the change not yet announced.                    *)
Unannounced ==
    \/ \E c \in Callers \ {UI} : pc[c] \in {"read", "listeners", "flag"}
    \/ pc[UI] \in {"read", "transmit", "listeners"}

(* A UI listener that shows anything but the value is going to be called:    *)
(* the flag is set, the call is due in the round that the user interface     *)
(* is in, or whoever changed the value is about to see to it.  No            *)
(* interleaving of updates and pulses leaves it behind.                      *)
StaleIsPending ==
    \A v \in Views : shown[v] # value =>
        changedFromProcessor \/ v \in toNotify \/ Unannounced

(* When the updates are through, every UI listener shows the value.          *)
ViewsCatchUp == <>[](\A v \in Views : shown[v] = value)

(* The host and the parameter agree whenever no update is under way, unless  *)
(* the last ones overlapped: then the host may keep the value that lost.     *)
HostAgrees ==
    (\A c \in Callers : ~Busy(c)) /\ ~overlapped => host = value
=============================================================================
