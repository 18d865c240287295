----------------------------- MODULE HaulageCost -----------------------------
(***************************************************************************)
(* What it costs a vehicle to cross a cell of the terrain, and which cells   *)
(* it may not enter (core/routing/terrain.py, cost.py, config.py).           *)
(*                                                                         *)
(* A ground is what the layers of the grid hold for a cell: its slope in      *)
(* degrees, its elevation as a percentage of the grid's range, and the other  *)
(* layers in percent.  Conditions and factors are percentages too; rates are  *)
(* thousandths of the cost of a safe kilometre.                             *)
(***************************************************************************)
EXTENDS Integers

Lesser(a, b) == IF a < b THEN a ELSE b

Percent == 0 .. 100
Clip(percent) == Lesser(percent, 100)

Ground ==
    [slope : Nat, height : Percent, road : Percent, flood : Percent, activity : Percent, traffic : Percent,
     restricted : BOOLEAN, excavation : BOOLEAN]

Conditions == [rain : Percent, road : Percent, traffic : Percent, weather : Percent, blasting : BOOLEAN]

\* Sensitivities in percent, the grade in degrees.
VehicleProfiles ==
    [haul_truck |-> [slope |-> 145, flood |-> 130, road |-> 125, grade |-> 12],
     articulated_dumper |-> [slope |-> 115, flood |-> 95, road |-> 90, grade |-> 16],
     water_tanker |-> [slope |-> 125, flood |-> 110, road |-> 110, grade |-> 14],
     light_vehicle |-> [slope |-> 80, flood |-> 145, road |-> 135, grade |-> 20]]

Vehicle(name) == VehicleProfiles[IF name \in DOMAIN VehicleProfiles THEN name ELSE "haul_truck"]

\* Tenths of alpha.
RiskWeights == [slope |-> 22, flood |-> 30, road |-> 25, mining |-> 20, weather |-> 15, traffic |-> 12]

FLOOD_BLOCK == 85
SLOPE_BLOCK == 18
ALPHA == 1000

FloodRisk(ground, conditions) == Clip((ground.flood * (1800 + 92 * conditions.rain)) \div 10000)

RoadRisk(ground, conditions) ==
    LET combined == (60 * (100 - ground.road) + 40 * (100 - conditions.road)) \div 100
    IN Clip((combined * (1000000 + 55 * conditions.rain * combined)) \div 1000000)

TrafficRisk(ground, conditions) == Clip((ground.traffic * (3500 + 115 * conditions.traffic)) \div 10000)

MiningRisk(ground, conditions) ==
    IF conditions.blasting THEN Clip((ground.activity * 16) \div 10) ELSE ground.activity

\* Weather bites harder on high ground and on bad roads.
WeatherRisk(ground, conditions, road) ==
    Clip((conditions.weather * (50 + ground.height \div 2) * (1000 + 3 * road)) \div 100000)

Factors(ground, conditions, vehicle) ==
    LET road == (RoadRisk(ground, conditions) * vehicle.road) \div 100 IN
    [slope |-> Clip((Clip(5 * ground.slope) * vehicle.slope) \div 100),
     flood |-> Clip((FloodRisk(ground, conditions) * vehicle.flood) \div 100),
     road |-> Clip(road),
     mining |-> MiningRisk(ground, conditions),
     weather |-> WeatherRisk(ground, conditions, road),
     traffic |-> TrafficRisk(ground, conditions)]

Rate(ground, conditions, vehicle) ==
    LET f == Factors(ground, conditions, vehicle) IN
    ALPHA + RiskWeights.slope * f.slope + RiskWeights.flood * f.flood + RiskWeights.road * f.road
          + RiskWeights.mining * f.mining + RiskWeights.weather * f.weather + RiskWeights.traffic * f.traffic

\* Not a high cost: the search must not enter these cells at all.
Blocked(ground, conditions, vehicle) ==
    \/ ground.restricted
    \/ ground.excavation
    \/ FloodRisk(ground, conditions) >= FLOOD_BLOCK
    \/ ground.slope > Lesser(SLOPE_BLOCK, vehicle.grade)
===============================================================================
