---------------------------- MODULE PresetWidget ----------------------------
(***************************************************************************)
(* CPresetWidget (src/gui/widgets/CPresetWidget.cpp) on the PresetFiles:   *)
(* the user edits an object, saves it as the default preset and loads that *)
(* again, into an object whose deserialization may throw half way          *)
(* (SafeSerializableObject, src/state/SafeSerializableObject.cpp).         *)
(* An object's state is the number of the edit that made it, or torn; an   *)
(* archive holds such a state, or nothing.                                 *)
(***************************************************************************)
EXTENDS PresetFiles, TLC

CONSTANTS MaxEdits, \* bound: so many edits
          torn,     \* a state mixed from two, or a part of one
          void      \* what an archive holds that was cleared

States == 0 .. MaxEdits \cup {torn}

ASSUME WidgetAssumption ==
    /\ MaxEdits \in Nat /\ torn \notin Nat
    /\ void \notin States /\ Presets = States \cup {void}

VARIABLES
    object,    \* each instance's object
    safeState, \* while the user is asked: what the object was serialized to before
    edits,
    excuse     \* history: why the object was left half changed, since it was whole

wVars == <<fileVars, object, safeState, edits, excuse>>

WidgetInit ==
    /\ FilesInit
    /\ object = [i \in Instances |-> 0] /\ safeState = [i \in Instances |-> void]
    /\ edits = 0 /\ excuse = [i \in Instances |-> "none"]

(* What serializeObject() leaves in an archive: the state or, when           *)
(* serialize() throws, a part of it (the user says no) or nothing (cancel).  *)
Serialized(i) == {object[i], torn, void}

(* The object is to be left like that, for this reason if not whole.         *)
Leaves(i, o, why) ==
    excuse' = [excuse EXCEPT ![i] = IF o # torn THEN "none"
                                    ELSE IF @ = "none" THEN why ELSE @]

Asked(i) == pc[i] = "asking" /\ safeState' = [safeState EXCEPT ![i] = void] /\ Fails(i, content)

Edit(i) ==
    /\ pc[i] = "idle" /\ edits < MaxEdits
    /\ edits' = edits + 1
    /\ object' = [object EXCEPT ![i] = edits + 1]
    /\ Leaves(i, edits + 1, "none")
    /\ UNCHANGED <<fileVars, safeState>>

(* ksaveDefault: the object is serialized, and the preset saved, whatever    *)
(* serializeObject() returned.  (To an exception in it the user may also say *)
(* yes, which changes nothing: it is rethrown.)                              *)
Save(i) ==
    /\ \E p \in Serialized(i) : SaveBegins(i, p)
    /\ UNCHANGED <<object, safeState, edits, excuse>>

(* deserializeObject() serializes the object, with no look at the result ... *)
SafeStateThrows(i) ==
    /\ pc[i] = "built"
    /\ Fails(i, content)
    /\ UNCHANGED <<object, safeState, edits, excuse>>

(* ... and then replaces its state, if there is one to read ...              *)
Deserialize(i) ==
    /\ pc[i] = "built" /\ archive[i] # void
    /\ object' = [object EXCEPT ![i] = archive[i]]
    /\ Leaves(i, archive[i], "accepted")
    /\ Fails(i, content)
    /\ UNCHANGED <<safeState, edits>>

(* ... or throws, at once or half way.                                       *)
DeserializeThrows(i) ==
    /\ pc[i] = "built"
    /\ \E s \in Serialized(i) : safeState' = [safeState EXCEPT ![i] = s]
    /\ object' = IF archive[i] = void THEN object ELSE [object EXCEPT ![i] = torn]
    /\ Steps(i, "asking")
    /\ UNCHANGED <<path, content, lock, fd, archive, history, edits, excuse>>

\* Mutant: the state is not put back.
Mutant_Revert(i) ==
    /\ Asked(i) /\ safeState[i] # void
    /\ object' = object
    /\ Leaves(i, safeState[i], "accepted")
    /\ UNCHANGED edits

(* The user is asked: cancel puts back the state that was kept, which is not *)
(* whole when the user ignored that it was not serialized whole ...          *)
Revert(i) ==
    /\ Asked(i) /\ safeState[i] # void
    /\ object' = [object EXCEPT ![i] = safeState[i]]
    /\ Leaves(i, safeState[i], "accepted")
    /\ UNCHANGED edits

(* ... or throws in turn, out of the handler: the state kept is one that     *)
(* deserialize() does not take either, or there is none to read.             *)
RevertThrows(i) ==
    /\ Asked(i)
    /\ object' = IF safeState[i] = void THEN object ELSE [object EXCEPT ![i] = torn]
    /\ Leaves(i, object'[i], "stranded")
    /\ UNCHANGED edits

(* Yes and no leave the object as it is.                                     *)
Keep(i) ==
    /\ Asked(i)
    /\ Leaves(i, object[i], "accepted")
    /\ UNCHANGED <<object, edits>>

(* A process that begins has a new object.                                   *)
Crash(i) ==
    /\ Killed(i)
    /\ object' = [object EXCEPT ![i] = 0] /\ safeState' = [safeState EXCEPT ![i] = void]
    /\ Leaves(i, 0, "none")
    /\ UNCHANGED edits

WidgetNext ==
    \E i \in Instances :
        \/ FileMoves(i) /\ UNCHANGED <<object, safeState, edits, excuse>>
        \/ Edit(i) \/ Save(i) \/ SafeStateThrows(i)
        \/ Deserialize(i) \/ DeserializeThrows(i)
        \/ Revert(i) \/ RevertThrows(i) \/ Keep(i) \/ Crash(i)

Symmetry == Permutations(Instances)

WidgetSpec == WidgetInit /\ [][WidgetNext]_wVars
-----------------------------------------------------------------------------
(* An object is left half changed only when its user let it be, or loaded    *)
(* what was saved so, or when the way back to the state before failed too:   *)
(* neither a torn file nor a load that failed does that.                     *)
TornByChoice ==
    \A i \in Instances :
        object[i] = torn => pc[i] = "asking" \/ excuse[i] \in {"accepted", "stranded"}

(* What the user is told: cancel reverts the changes to the last known, safe *)
(* state.  So only a user who said otherwise is left with half a change.     *)
(* This does not hold: RevertThrows leaves one.                              *)
CancelReverts ==
    \A i \in Instances :
        object[i] = torn => pc[i] = "asking" \/ excuse[i] = "accepted"
=============================================================================
