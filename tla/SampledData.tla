----------------------------- MODULE SampledData -----------------------------
(***************************************************************************)
(* The data of the sampled nodes: blocks of raw bytes with a descriptor.   *)
(* A descriptor is modelled by its value for each field that tells two     *)
(* formats apart (rate, channels, sample types, byte order); the bytes of  *)
(* a block by the formats in which they were recorded.                     *)
(***************************************************************************)
EXTENDS Naturals

CONSTANTS
  Field, Value,        \* the fields of a format and their values
  NoData               \* a null std::shared_ptr<SampledData>

Format == [Field -> Value]

(* raw: the formats of its bytes; format: what its descriptor says; id:    *)
(* its identity, the pointer.                                              *)
Block == [id : Nat, raw : SUBSET Format, format : Format]

ASSUME NoDataAssumption == NoData \notin Block
=============================================================================
