----------------------------- MODULE EtsResponses -----------------------------
(* How an event becomes the argument of an ArkTS function. The type of the sensor *)
(* picks the names of the values (g_sensorAttributeList) and the conversion       *)
(* (g_functionBySensorTypeIdMap); the conversion gives up when the function that  *)
(* was registered takes another response than its own, and throws when a name it  *)
(* reads is missing. Three tables, two of them spread over some fifty functions,  *)
(* that have to agree type by type.                                               *)
EXTENDS Naturals, SequencesExt, TLC

XYZ == <<"x", "y", "z">>
Biased == XYZ \o <<"biasX", "biasY", "biasZ">>

(* The names of an event's values, in the order of the values.                    *)
g_sensorAttributeList ==
    [ACCELEROMETER |-> XYZ, GYROSCOPE |-> XYZ, MAGNETIC_FIELD |-> XYZ, GRAVITY |-> XYZ,
     LINEAR_ACCELERATION |-> XYZ, ROTATION_VECTOR |-> XYZ \o <<"w">>,
     AMBIENT_LIGHT |-> <<"intensity", "colorTemperature", "infraredLuminance">>,
     BAROMETER |-> <<"pressure">>, HALL |-> <<"status">>, TEMPERATURE |-> <<"temperature">>,
     PROXIMITY |-> <<"distance">>, HUMIDITY |-> <<"humidity">>,
     ORIENTATION |-> <<"alpha", "beta", "gamma">>, AMBIENT_TEMPERATURE |-> <<"temperature">>,
     MAGNETIC_FIELD_UNCALIBRATED |-> Biased, GYROSCOPE_UNCALIBRATED |-> Biased,
     ACCELEROMETER_UNCALIBRATED |-> Biased, SIGNIFICANT_MOTION |-> <<"scalar">>,
     PEDOMETER_DETECTION |-> <<"scalar">>, PEDOMETER |-> <<"steps">>,
     HEART_RATE |-> <<"heartRate">>, WEAR_DETECTION |-> <<"value">>,
     COLOR |-> <<"lightIntensity", "colorTemperature">>, SAR |-> <<"absorptionRatio">>,
     FUSION_PRESSURE |-> <<"fusionPressure">>]

g_functionBySensorTypeIdMap ==
    [ACCELEROMETER |-> "Accelermeter", GYROSCOPE |-> "Gyroscope",
     AMBIENT_LIGHT |-> "AmbientLight", MAGNETIC_FIELD |-> "MagneticField",
     BAROMETER |-> "Barometer", HALL |-> "Hall", PROXIMITY |-> "Proximity",
     HUMIDITY |-> "Humidity", ORIENTATION |-> "Orientation", GRAVITY |-> "Gravity",
     LINEAR_ACCELERATION |-> "LinearAcceleration", ROTATION_VECTOR |-> "RotationVector",
     AMBIENT_TEMPERATURE |-> "AmbientTemperature",
     MAGNETIC_FIELD_UNCALIBRATED |-> "MagneticFieldUncalibrated",
     GYROSCOPE_UNCALIBRATED |-> "GyroscopeUncalibrated",
     SIGNIFICANT_MOTION |-> "SignificantMotion", PEDOMETER_DETECTION |-> "PedometerDetection",
     PEDOMETER |-> "Pedometer", HEART_RATE |-> "HeartRate", WEAR_DETECTION |-> "WearDetection",
     ACCELEROMETER_UNCALIBRATED |-> "AccelerometerUncalibrated", COLOR |-> "Color",
     SAR |-> "Sar", FUSION_PRESSURE |-> "FusionPressure"]

(* Tables that go on in a second one (f @@ g, in a form that can be expanded).     *)
Both(f, g) == [x \in DOMAIN f \cup DOMAIN g |-> IF x \in DOMAIN f THEN f[x] ELSE g[x]]

-----------------------------------------------------------------------------
(* The conversions: which response each one makes, and from which values.         *)
Makes(response, names) == [response |-> response, reads |-> names]
Axes(response) == Makes(response, {"x", "y", "z"})
BiasedAxes(response) == Makes(response, {"x", "y", "z", "biasX", "biasY", "biasZ"})

MotionConversions ==
    [Accelermeter |-> Axes("Accelerometer"), Gyroscope |-> Axes("Gyroscope"),
     AmbientLight |-> Makes("Light", {"intensity", "colorTemperature", "infraredLuminance"}),
     MagneticField |-> Axes("MagneticField"),
     Barometer |-> Makes("Barometer", {"pressure"}), Hall |-> Makes("Hall", {"status"})]
DirectionConversions ==
    [Proximity |-> Makes("Proximity", {"distance"}), Humidity |-> Makes("Humidity", {"humidity"}),
     Orientation |-> Makes("Orientation", {"alpha", "beta", "gamma"}),
     Gravity |-> Axes("Gravity"), LinearAcceleration |-> Axes("LinearAccelerometer"),
     RotationVector |-> Makes("RotationVector", {"x", "y", "z", "w"})]
UncalibratedConversions ==
    [AmbientTemperature |-> Makes("AmbientTemperature", {"temperature"}),
     MagneticFieldUncalibrated |-> BiasedAxes("MagneticFieldUncalibrated"),
     GyroscopeUncalibrated |-> BiasedAxes("GyroscopeUncalibrated"),
     SignificantMotion |-> Makes("SignificantMotion", {"scalar"}),
     PedometerDetection |-> Makes("PedometerDetection", {"scalar"}),
     Pedometer |-> Makes("Pedometer", {"steps"})]
BodyConversions ==
    [HeartRate |-> Makes("HeartRate", {"heartRate"}),
     WearDetection |-> Makes("WearDetection", {"value"}),
     AccelerometerUncalibrated |-> BiasedAxes("AccelerometerUncalibrated"),
     Color |-> Makes("Color", {"lightIntensity", "colorTemperature"}),
     FusionPressure |-> Makes("FusionPressure", {"fusionPressure"}),
     Sar |-> Makes("Sar", {"absorptionRatio"})]
CallBack ==
    Both(Both(MotionConversions, DirectionConversions), Both(UncalibratedConversions, BodyConversions))

-----------------------------------------------------------------------------
(* The functions an application registers with: what type of sensor on and once   *)
(* are called for, and what the function takes.                                   *)
OnFirst ==
    [SIGNIFICANT_MOTION |-> "SignificantMotion", ROTATION_VECTOR |-> "RotationVector",
     PROXIMITY |-> "Proximity", PEDOMETER_DETECTION |-> "PedometerDetection",
     PEDOMETER |-> "Pedometer", ORIENTATION |-> "Orientation",
     MAGNETIC_FIELD_UNCALIBRATED |-> "MagneticFieldUncalibrated",
     MAGNETIC_FIELD |-> "MagneticField"]
OnSecond ==
    [LINEAR_ACCELERATION |-> "LinearAccelerometer", HUMIDITY |-> "Humidity",
     HEART_RATE |-> "HeartRate", HALL |-> "Hall",
     GYROSCOPE_UNCALIBRATED |-> "GyroscopeUncalibrated", GYROSCOPE |-> "Gyroscope",
     GRAVITY |-> "Gravity", BAROMETER |-> "Barometer",
     AMBIENT_TEMPERATURE |-> "AmbientTemperature"]
OnThird ==
    [AMBIENT_LIGHT |-> "Light", ACCELEROMETER_UNCALIBRATED |-> "AccelerometerUncalibrated",
     ACCELEROMETER |-> "Accelerometer", SAR |-> "Sar", COLOR |-> "Color",
     FUSION_PRESSURE |-> "FusionPressure"]
On == Both(Both(OnFirst, OnSecond), Both(OnThird, [WEAR_DETECTION |-> "WearDetection"]))
Once == [type \in DOMAIN On \ {"SAR", "COLOR", "FUSION_PRESSURE"} |-> On[type]]

(* CallbackSensorData: the names of the event's values with their places. None    *)
(* when the event has fewer values than names.                                    *)
CallbackSensorData(type, length) ==
    IF Len(g_sensorAttributeList[type]) > length THEN {}
    ELSE ToSet(g_sensorAttributeList[type]) \cup {"timestamp", "accuracy"}

(* CallbackDataBySensorTypeId, for a function that takes the response.            *)
Called(type, length, response) ==
    LET names == CallbackSensorData(type, length) IN
    /\ names # {}
    /\ type \in DOMAIN g_functionBySensorTypeIdMap
    /\ LET conversion == CallBack[g_functionBySensorTypeIdMap[type]]
       IN /\ response = conversion.response
          /\ conversion.reads \cup {"timestamp", "accuracy"} \subseteq names

(* Every function that can be registered is called with an event that has its     *)
(* values: nothing is dropped for a mismatch and nothing throws.                  *)
EveryResponseMade ==
    \A registered \in {On, Once} : \A type \in DOMAIN registered :
        Called(type, Len(g_sensorAttributeList[type]), registered[type])
=============================================================================
