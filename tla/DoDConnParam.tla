---------------------------- MODULE DoDConnParam ----------------------------
(***************************************************************************)
(* The raw parameters of a DoD connection                                  *)
(* (src/vm/contract/abi/abi_dod_settlement.go:                             *)
(* DoDSettleUpdateConnectionRawParam, DoDSettleGetConnectionRawParam):     *)
(* the first write stores every field of the request; a later one replaces *)
(* only the fields of the merge list that the request sets.                *)
(*                                                                         *)
(* A field value is a small natural, 0 standing for the empty string, the  *)
(* Null enum value or a zero number (the enum types are not in these       *)
(* sources; DoDSettleInheritRawParam compares them with 0).  The msgp     *)
(* encoding and the storage errors are left out.  Fields is the subset of *)
(* the record's fields a model lets vary; the others stay 0.               *)
(***************************************************************************)
EXTENDS Integers, Sequences, FiniteSets, FiniteSetsExt, TLC

CONSTANTS
    Ids,       \* connection storage ids
    Fields,    \* fields the requests may set
    Values,    \* field values, 0 = not set
    MaxCalls,  \* bound on updates per id
    None       \* absent record

(* The fields lines 452-494 copy from a later request when it sets them.  *)
MergedFields == {"ItemId", "ConnectionName", "PaymentType", "BillingType", "Currency",
                 "ServiceClass", "Bandwidth", "BillingUnit", "Price", "StartTime", "EndTime"}

(* The fields only the first write (lines 495-519) stores.                 *)
KeptFields == {"BuyerProductId", "ProductOfferingId", "SrcCompanyName", "SrcRegion",
               "SrcCity", "SrcDataCenter", "SrcPort", "DstCompanyName", "DstRegion",
               "DstCity", "DstDataCenter", "DstPort"}

ASSUME Fields \subseteq MergedFields \cup KeptFields /\ 0 \in Values

VARIABLES
    rawParam,  \* id -> the stored DoDSettleConnectionRawParam
    rawCalls   \* history: id -> Seq of the DoDSettleConnectionParam given

vars == <<rawParam, rawCalls>>

Params == [Fields -> Values]

(* DoDSettleGetConnectionRawParam: the stored record, None on a failed    *)
(* read.                                                                   *)
GetConnectionRawParam(id) == IF id \in DOMAIN rawParam THEN rawParam[id] ELSE None

Calls(id) == IF id \in DOMAIN rawCalls THEN rawCalls[id] ELSE <<>>

(* Mutant: every field the request sets is copied, the identity fields of *)
(* the connection included.                                                *)
UpdateConnectionRawParamAll(id, param) ==
    /\ Len(Calls(id)) < MaxCalls
    /\ rawParam' = (id :> IF GetConnectionRawParam(id) # None
                         THEN [f \in Fields |-> IF param[f] # 0 THEN param[f] ELSE rawParam[id][f]]
                         ELSE param) @@ rawParam
    /\ rawCalls' = (id :> Append(Calls(id), param)) @@ rawCalls

(* DoDSettleUpdateConnectionRawParam(param, id): when a record is stored,  *)
(* each merged field the request sets replaces the stored one; otherwise  *)
(* the request is stored as it is.                                         *)
UpdateConnectionRawParam(id, param) ==
    /\ Len(Calls(id)) < MaxCalls
    /\ rawParam' = (id :> IF GetConnectionRawParam(id) # None
                         THEN [f \in Fields |-> IF f \in MergedFields /\ param[f] # 0
                                                THEN param[f] ELSE rawParam[id][f]]
                         ELSE param) @@ rawParam
    /\ rawCalls' = (id :> Append(Calls(id), param)) @@ rawCalls

Init ==
    /\ rawParam = <<>>
    /\ rawCalls = <<>>

Next == \E id \in Ids, p \in Params : UpdateConnectionRawParam(id, p)

Spec == Init /\ [][Next]_vars

-----------------------------------------------------------------------------
(* Properties.                                                             *)

TypeOK ==
    /\ DOMAIN rawParam \subseteq Ids
    /\ \A id \in DOMAIN rawParam : rawParam[id] \in Params
    /\ DOMAIN rawCalls = DOMAIN rawParam

(* The value a field should hold after the requests calls: a field that   *)
(* identifies the connection keeps what the first request gave; any other *)
(* holds the last value a request set (0 if none did).                    *)
ExpectedField(calls, f) ==
    LET set == {i \in DOMAIN calls : calls[i][f] # 0}
    IN IF f \in KeptFields THEN calls[1][f]
       ELSE IF set = {} THEN 0 ELSE calls[Max(set)][f]

(* After any sequence of DoDSettleUpdateConnectionRawParam calls for a     *)
(* connection, its raw parameters hold, field by field, the expected       *)
(* value: later orders change the terms, never the endpoints.             *)
RawParamMerged ==
    \A id \in DOMAIN rawCalls :
        \A f \in Fields : rawParam[id][f] = ExpectedField(rawCalls[id], f)

====
