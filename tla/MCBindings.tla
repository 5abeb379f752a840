------------------------------ MODULE MCBindings ------------------------------
EXTENDS Bindings

CONSTANTS e1, e2, f1, f2

(* In ArkTS every function that can be registered takes what the events of its    *)
(* sensor are converted to (ohos.sensor.impl.cpp:126-185): a fact about three     *)
(* tables of the source, which TLC evaluates.                                     *)
ASSUME ResponsesMatch == Ets!EveryResponseMade

MCEnvOf == [f \in {f1, f2} |-> IF f = f1 THEN e1 ELSE e2]
MCLanguages == {"js", "ets", "cj"}
MCCodes == {"PERMISSION_DENIED", "PARAMETER_ERROR", "NON_SYSTEM_API", "NO_CHANNEL"}

Sensor(type, device, hidden) ==
    [type |-> type, device |-> device, local |-> device = "here", hidden |-> hidden]
Own == Sensor("accelerometer", "here", FALSE)
Second == Sensor("light1", "here", TRUE)
Same == Sensor("accelerometer", "there", FALSE)
MCDescribed == {Own, Second, Same}
MCFixed == {Own, Second}
MCLists == {<<Own, Second>>, <<Second, Own>>, <<Same, Own, Second>>, <<Second, Own, Same>>}
=============================================================================
