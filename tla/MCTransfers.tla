------------------------------- MODULE MCTransfers -------------------------------
(***************************************************************************)
(* The two serial transfers for TLC: the camera's registers over its bus,  *)
(* and the keys from the processor to the fabric.  They share no state, so *)
(* each is run by itself, while the other stays as it began: part names    *)
(* the one.                                                                *)
(***************************************************************************)
EXTENDS MCSCCBBus, MCKeyExchange

VARIABLE part

(* The one that does not run needs no more than one first state.           *)
SomeKeys == CHOOSE t \in Typed : TRUE

TransfersInit ==
  /\ part \in {"bus", "keys"} /\ BusInit /\ ExchangeInit
  /\ part = "bus"  => row_key = SomeKeys[1] /\ column_key = SomeKeys[2]
  /\ part = "keys" => sdiod = HiZ

TransfersNext ==
  /\ UNCHANGED part
  /\ \/ part = "bus"  /\ BusNext      /\ UNCHANGED exchangeVars
     \/ part = "keys" /\ ExchangeNext /\ UNCHANGED vars

(* The fairness of each while it runs.                                     *)
TransfersSpec ==
  /\ TransfersInit /\ [][TransfersNext]_<<part, vars, exchangeVars>>
  /\ WF_vars(part = "bus" /\ BusNext)
  /\ WF_exchangeVars(part = "keys" /\ HwClock)
  /\ WF_exchangeVars(part = "keys" /\ SwAccess /\ pc # "prompt")
===============================================================================
