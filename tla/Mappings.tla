------------------------------ MODULE Mappings ------------------------------
(***************************************************************************)
(* Which fans follow which sensor along which curve: Mapping, CurveMapping *)
(* and the curves, as loaded from a configuration                          *)
(*                                                                         *)
(*     [controllers : Seq([id, fans]), generated : SUBSET of the ids,      *)
(*      mappings : Seq([sensor, targets]), active : Seq([curve, targets]), *)
(*      curves : Seq([id, curve])]                                         *)
(*                                                                         *)
(* where targets is a set of fans [controller, channel].                   *)
(***************************************************************************)
EXTENDS Curves

DummySensor == "dummy_sensor"
DummyCurve == "dummy_curve"

\* ensure_mappings: whatever the file says, a dummy mapping and a constant
\* curve are added, for all fans of the controllers whose id is generated.
EnsureMappings(cfg) ==
    LET targets == UNION {{[controller |-> cfg.controllers[i].id, channel |-> n] :
                              n \in 1 .. cfg.controllers[i].fans} :
                          i \in {j \in DOMAIN cfg.controllers :
                                    cfg.controllers[j].id \in cfg.generated}}
    IN [cfg EXCEPT
          !.mappings = Append(@, [sensor |-> DummySensor, targets |-> targets]),
          !.active   = Append(@, [curve |-> DummyCurve, targets |-> targets]),
          !.curves   = Append(@, [id |-> DummyCurve, curve |-> Constant(80)])]

\* What the monitoring service has after a commit that nothing prepared.
NoMappings == [mappings |-> <<>>, active |-> <<>>, curves |-> <<>>]

\* Entries for one sensor are merged.  A fan may be in those of several.
FansForSensor(cfg, sensor) ==
    UNION {cfg.mappings[i].targets :
             i \in {j \in DOMAIN cfg.mappings : cfg.mappings[j].sensor = sensor}}

\* Each entry overwrites the ones before it.
Naming(cfg, fan) == {i \in DOMAIN cfg.active : fan \in cfg.active[i].targets}
CurveNameOf(cfg, fan) == cfg.active[Greatest(Naming(cfg, fan))].curve

Named(cfg, name) == {i \in DOMAIN cfg.curves : cfg.curves[i].id = name}

\* calculate_fan_speed: {} when the fan has no curve, when the curve it is
\* given does not exist, or when the curve is malformed.
CurvesOf(cfg, fan) ==
    IF Naming(cfg, fan) = {} \/ Named(cfg, CurveNameOf(cfg, fan)) = {} THEN {}
    ELSE {cfg.curves[Least(Named(cfg, CurveNameOf(cfg, fan)))].curve}

SpeedsOf(cfg, fan, T) == UNION {Speeds(c, T) : c \in CurvesOf(cfg, fan)}
=============================================================================
