----------------------------- MODULE SensorLists -----------------------------
(* What the language bindings answer when an application asks for sensors. They   *)
(* ask the agent for its array, which GetAllSensors hands out itself and not a    *)
(* copy of, and go through it without a lock while the plug thread appends to it  *)
(* (in a new array) or takes out of it (in place). PlugEvents says how the array  *)
(* follows the service; here it is what it is.                                    *)
EXTENDS Naturals, FiniteSets, SequencesExt

CONSTANTS
    Described,    \* the sensors there can be: [type, device, local, hidden] records
    Fixed,        \* those of them that are always there: the device's own
    Lists         \* the arrays that the agent may build from the client's list

(* One device is the local one; a device and a call that is for every type have   *)
(* no sensor's type.                                                              *)
ASSUME ListsAssumption ==
    /\ Fixed \subseteq Described /\ IsFiniteSet(Fixed)
    /\ \A array \in Lists : array \in Seq(Described) /\ Fixed \subseteq ToSet(array)
    /\ \A s \in Described : s.type # "none"
    /\ \A s, t \in Described : s.local => (t.local <=> t.device = s.device)

VARIABLES
    infos,        \* sensorInfoCheck_ and sensorInfoCount_ of the agent
    ask,          \* the call: what is wanted, how far it is, the device it found
    held,         \* the array that the caller goes through, and how many it counts
    answer,       \* what the caller has picked so far
    always, ever, \* history: the sensors the agent knew all through, or at any time of, the call
    disturbed     \* history: the array changed under the caller, or the agent failed it

listVars == <<infos, ask, held, answer, always, ever, disturbed>>

Types == {s.type : s \in Described}
Devices == {s.device : s \in Described}
NoDevice == "DEFAULT_DEVICE_ID"
NoAsk == [call |-> "none", at |-> "idle", type |-> "none", device |-> NoDevice, named |-> NoDevice]
NotHeld == [array |-> <<>>, count |-> 0, own |-> FALSE, next |-> 1]

(* What the calls want. The single sensor of JavaScript is the local device's,    *)
(* that of ArkTS is any device's, hidden ones included.                           *)
Calls == {"list", "cjList", "single", "etsSingle", "listByDevice", "singleByDevice"}
Hidden(s) == s.hidden
OfDevice(s) == s.device = ask.device
Wanted(s) ==
    CASE ask.call \in {"list", "cjList"} -> ~Hidden(s)
      [] ask.call = "single" -> ~Hidden(s) /\ s.device = ask.device /\ s.type = ask.type
      [] ask.call = "etsSingle" -> s.type = ask.type
      [] ask.call = "listByDevice" -> ~Hidden(s) /\ OfDevice(s)
      [] ask.call = "singleByDevice" -> ~Hidden(s) /\ s.type = ask.type /\ OfDevice(s)

Start == SetToSeq(Fixed)
ListsInit ==
    /\ infos = Start
    /\ ask = NoAsk /\ held = NotHeld /\ answer = <<>>
    /\ always = {} /\ ever = {} /\ disturbed = FALSE

Seen(sensors) == IF ask.at = "idle" THEN {} ELSE ever \cup sensors

(* The array changes: appended to, or taken out of with the rest moved up. What   *)
(* is behind the end stays in memory.                                             *)
Appended(s) ==
    /\ s \in Described \ ToSet(infos)
    /\ infos' = Append(infos, s)
    /\ held' = [held EXCEPT !.own = FALSE]
    /\ ever' = Seen({s})
    /\ UNCHANGED <<ask, answer, always, disturbed>>

Moved(s) == RemoveFirst(infos, s) \o SubSeq(held.array, Len(infos), Len(held.array))

TakenOut(s) ==
    /\ s \in ToSet(infos) \ Fixed
    /\ infos' = RemoveFirst(infos, s)
    /\ held' = IF held.own THEN [held EXCEPT !.array = Moved(s)] ELSE held
    /\ always' = always \ {s}
    /\ disturbed' = (disturbed \/ held.own)
    /\ UNCHANGED <<ask, answer, ever>>

(* Another thread's GetAllSensors finds the client's list longer or shorter: the  *)
(* array is freed, and made again in the order of that list. Whoever still goes   *)
(* through the old one may read anything: what was there, or what is now.         *)
Rebuilt ==
    /\ \E array \in {x \in Lists : Len(x) # Len(infos)} :
          /\ infos' = array
          /\ always' = always \cap ToSet(array)
          /\ ever' = Seen(ToSet(array))
          /\ held' \in {[held EXCEPT !.own = FALSE]}
                      \cup (IF held.own /\ Len(array) >= held.count
                           THEN {[held EXCEPT !.own = FALSE, !.array = array]} ELSE {})
    /\ disturbed' = (disturbed \/ held.own)
    /\ UNCHANGED <<ask, answer>>

-----------------------------------------------------------------------------
(* A call begins. Who names no device asks first for the local one.               *)
Begin(call, type, device) ==
    /\ ask.at = "idle"
    /\ ask' = [call |-> call, type |-> type, device |-> device, named |-> device,
               at |-> IF call = "single" \/ (call \in {"listByDevice", "singleByDevice"}
                                             /\ device = NoDevice)
                      THEN "local" ELSE "array"]
    /\ answer' = <<>> /\ held' = NotHeld
    /\ always' = ToSet(infos) /\ ever' = ToSet(infos)
    /\ disturbed' = FALSE
    /\ UNCHANGED infos

AskList == Begin("list", "none", NoDevice)
GetAllSensorList == Begin("cjList", "none", NoDevice)
AskSingle(type) == Begin("single", type, NoDevice)
AskSingleEts(type) == Begin("etsSingle", type, NoDevice)
AskListByDevice(device) == Begin("listByDevice", "none", device)
AskSingleByDevice(type, device) == Begin("singleByDevice", type, device)

(* The first sensor in the list that is local names the device. A failure leaves  *)
(* the default identifier, and the call goes on with it.                          *)
FirstDeviceMutant == {infos[1].device}
LocalDevices == {s.device : s \in {x \in ToSet(infos) : x.local}}

GetLocationDeviceId ==
    /\ ask.at = "local"
    /\ \/ \E d \in LocalDevices :
             ask' = [ask EXCEPT !.at = "array", !.device = d] /\ UNCHANGED disturbed
       \/ ask' = [ask EXCEPT !.at = "array"] /\ disturbed' = TRUE
    /\ UNCHANGED <<infos, held, answer, always, ever>>

(* GetAllSensors hands out the array. Cangjie copies it before it goes through    *)
(* it, and GetDeviceSensors copies the sensors of one device: here the others are *)
(* in the copy, and Wanted passes them over.                                      *)
Copied == {"cjList", "listByDevice", "singleByDevice"}
OwnArray == [array |-> infos, count |-> Len(infos), own |-> ask.call \notin Copied, next |-> 1]

GetSensors ==
    /\ ask.at = "array"
    /\ \/ /\ held' = OwnArray
          /\ ask' = [ask EXCEPT !.at = "loop"]
          /\ UNCHANGED disturbed
       \/ ask' = [ask EXCEPT !.at = "answered"] /\ disturbed' = TRUE /\ UNCHANGED held
    /\ UNCHANGED <<infos, answer, always, ever>>

(* FilteringSensorList and the loops like it: one sensor after the other; those   *)
(* who want a single one of all sensors stop at the first.                        *)
Single == ask.call \in {"single", "etsSingle"}

FilteringSensorList ==
    /\ ask.at = "loop" /\ held.next <= held.count
    /\ LET s == held.array[held.next] IN
       IF Wanted(s)
       THEN /\ answer' = Append(answer, s)
            /\ held' = [held EXCEPT !.next = IF Single THEN held.count + 1 ELSE @ + 1]
       ELSE held' = [held EXCEPT !.next = @ + 1] /\ UNCHANGED answer
    /\ UNCHANGED <<infos, ask, always, ever, disturbed>>

(* The answer is converted and given back.                                        *)
Answered ==
    /\ ask.at = "loop" /\ held.next > held.count
    /\ ask' = [ask EXCEPT !.at = "answered"]
    /\ held' = NotHeld
    /\ UNCHANGED <<infos, answer, always, ever, disturbed>>

Done ==
    /\ ask.at = "answered"
    /\ ask' = NoAsk /\ answer' = <<>> /\ always' = {} /\ ever' = {} /\ disturbed' = FALSE
    /\ UNCHANGED <<infos, held>>

ListsNext ==
    \/ \E s \in Described : Appended(s) \/ TakenOut(s)
    \/ Rebuilt
    \/ AskList \/ GetAllSensorList
    \/ \E type \in Types :
          \/ AskSingle(type) \/ AskSingleEts(type)
          \/ \E device \in Devices \cup {NoDevice} : AskSingleByDevice(type, device)
    \/ \E device \in Devices \cup {NoDevice} : AskListByDevice(device)
    \/ GetLocationDeviceId \/ GetSensors \/ FilteringSensorList \/ Answered \/ Done

-----------------------------------------------------------------------------
(* An application finds what is there: of the sensors that the agent knew all     *)
(* through the call, everything the call is for is in the answer (one of them,    *)
(* for a single sensor); and nothing is that the agent never knew meanwhile.      *)
(* Unless the array changed in place under the caller, or the agent failed.       *)
(* sensor_js.cpp:1381-1705, ohos.sensor.impl.cpp:259-342 and 1961-2110.           *)
Asked(s) ==
    /\ ask.type # "none" => s.type = ask.type
    /\ ask.call # "etsSingle" => ~s.hidden
    /\ \/ ask.call \in {"list", "cjList", "etsSingle"}
       \/ IF ask.named = NoDevice THEN s.local ELSE s.device = ask.named

Found ==
    ask.at = "answered" /\ ~disturbed =>
        /\ \A s \in ToSet(answer) : Asked(s) /\ s \in ever
        /\ LET there == {s \in always : Asked(s)} IN
           IF Single THEN there # {} => answer # <<>> ELSE there \subseteq ToSet(answer)
=============================================================================
