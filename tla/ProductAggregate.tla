-------------------------- MODULE ProductAggregate --------------------------
(***************************************************************************)
(* The Product aggregate of the order service and its command handlers.    *)
(* name stands for the fields UPDATED may carry: 0 is undefined.           *)
(***************************************************************************)
EXTENDS Naturals, Sequences, SequencesExt

CONSTANTS Names,  \* values of the descriptive fields
          Levels  \* stock levels a client asks for, negative ones included

ASSUME ProductAssumption == Names \subseteq Nat \ {0}

ProductEvent(t, name, level) == [type |-> t, name |-> name, level |-> level]

ProductApply(p, e) ==
  CASE e.type = "CREATED"       -> [name |-> e.name, level |-> e.level, active |-> TRUE]
    [] e.type = "UPDATED"       -> IF e.name = 0 THEN p ELSE [p EXCEPT !.name = e.name]
    [] e.type = "STOCK_UPDATED" -> [p EXCEPT !.level = e.level]
    [] e.type = "ACTIVATED"     -> [p EXCEPT !.active = TRUE]
    [] e.type \in {"DEACTIVATED", "DELETED"} -> [p EXCEPT !.active = FALSE]

ProductFrom(history) ==
  FoldLeft(ProductApply, [name |-> 0, level |-> 0, active |-> TRUE], history)

-----------------------------------------------------------------------------
(* The methods, as the batches they may raise; {} when they throw.         *)
UpdateStock(level) == IF level < 0 THEN {} ELSE {<<ProductEvent("STOCK_UPDATED", 0, level)>>}

(* activate and deactivate raise nothing when there is nothing to change.  *)
SetActive(p, active) ==
  {IF p.active = active THEN <<>>
   ELSE <<ProductEvent(IF active THEN "ACTIVATED" ELSE "DEACTIVATED", 0, 0)>>}

(* CreateProductHandler asks the read model for the SKU and the event      *)
(* store for version 0.                                                    *)
CreateProduct == {<<ProductEvent("CREATED", name, 0)>> : name \in Names}

(* UpdateProductHandler: the update, then the activation and the stock     *)
(* level when the command asks for them, saved as one batch or not at all. *)
UpdateProduct(p) ==
  {<<ProductEvent("UPDATED", name, 0)>> \o activation \o stock :
     name \in Names \union {0},
     activation \in {<<>>} \union UNION {SetActive(p, active) : active \in BOOLEAN},
     stock \in {<<>>} \union UNION {UpdateStock(level) : level \in Levels}}

(* A deleted product can still be changed.                                 *)
DeleteProduct == {<<ProductEvent("DELETED", 0, 0)>>}

UpdateProductStock == UNION {UpdateStock(level) : level \in Levels}

(* All but Create refuse a product without events.                         *)
ProductBatches(history) ==
  IF history = <<>> THEN CreateProduct
  ELSE UpdateProduct(ProductFrom(history)) \union DeleteProduct \union UpdateProductStock
=============================================================================
