--------------------------- MODULE ConfigLayerSource ---------------------------
(***************************************************************************)
(* ConfigLayerSource of codex-rs/core/src/config_loader/                   *)
(* config_layer_source.rs: the layer variants, precedence() and the         *)
(* PartialOrd that compares layers by precedence alone.  The state is one  *)
(* layer, so that every layer is visited and compared with all the others.*)
(***************************************************************************)
EXTENDS Integers, Sequences

CONSTANTS
    Paths,       \* AbsolutePathBuf / MDM domain-key payloads
    NoPayload    \* the fields of a unit variant

VARIABLE layer

\* Variants carrying fields, and unit variants.
WithFields == {"Mdm", "System", "User", "Project",
               "LegacyManagedConfigTomlFromFile"}
UnitVariants == {"SessionFlags", "LegacyManagedConfigTomlFromMdm"}

Layers ==
    [v : WithFields, p : Paths] \cup [v : UnitVariants, p : {NoPayload}]

\* Mutant: Project given User's precedence, as if its value were mistyped.
PrecedenceProjectAsUser ==
    [Mdm |-> 0, System |-> 10, User |-> 20, Project |-> 20,
     SessionFlags |-> 30, LegacyManagedConfigTomlFromFile |-> 40,
     LegacyManagedConfigTomlFromMdm |-> 50]

\* precedence(): the i16 of each variant.
PrecedenceOf ==
    [Mdm |-> 0, System |-> 10, User |-> 20, Project |-> 25,
     SessionFlags |-> 30, LegacyManagedConfigTomlFromFile |-> 40,
     LegacyManagedConfigTomlFromMdm |-> 50]

Precedence(l) == PrecedenceOf[l.v]

\* partial_cmp: Some(self.precedence().cmp(&other.precedence())).
PartialCmp(x, y) ==
    IF Precedence(x) < Precedence(y) THEN "Less"
    ELSE IF Precedence(x) = Precedence(y) THEN "Equal"
    ELSE "Greater"

LayerInit == layer \in Layers

NextLayer == layer' \in Layers

\* The order of spec property 8, lowest first.
SpecOrder == <<"Mdm", "System", "User", "Project", "SessionFlags",
               "LegacyManagedConfigTomlFromFile",
               "LegacyManagedConfigTomlFromMdm">>

Rank(v) == CHOOSE i \in DOMAIN SpecOrder : SpecOrder[i] = v

\* partial_cmp orders layers as spec property 8 does: any two layers of
\* different variants in that order, never Equal, so a sort by it cannot
\* leave two variants in the order they happened to be found.  Two layers
\* of one variant compare Equal whatever their fields.
LayerOrderIsSpecOrder ==
    \A y \in Layers :
        PartialCmp(layer, y) = IF Rank(layer.v) < Rank(y.v) THEN "Less"
                               ELSE IF Rank(layer.v) = Rank(y.v) THEN "Equal"
                               ELSE "Greater"
=============================================================================
