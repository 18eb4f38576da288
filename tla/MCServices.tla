----------------------------- MODULE MCServices -----------------------------
(***************************************************************************)
(* Parts of the services that do not share state, checked together: part   *)
(* says which of them a behaviour is about, the others stay as they were   *)
(* initialised.                                                            *)
(***************************************************************************)
EXTENDS Outbox, ReadModels, InventoryStock, UserAdmin, Checkout, Health, TLC

VARIABLE part

(* What the api-gateway, the order-service and a service with more to look *)
(* at register.                                                            *)
MCGateway == [indicators |-> {}, dependencies |-> {}]
MCRegistrations ==
  {MCGateway, [indicators |-> {}, dependencies |-> {"postgresql"}],
   [indicators |-> {"memory"}, dependencies |-> {"cache"}],
   [indicators |-> {"memory"}, dependencies |-> {"rabbitmq"}],
   [indicators |-> {"disk"}, dependencies |-> {}]}

ordersVars == <<readModelVars, stockVars, checkoutVars>>
sideVars == <<userVars, healthVars>>
servicesVars == <<part, vars, ordersVars, sideVars>>

Parts == {"outbox", "readmodels", "stock", "users", "checkout", "health"}

ServicesInit ==
  /\ part \in Parts
  /\ Init /\ ReadModelInit /\ StockInit /\ UserInit /\ CheckoutInit /\ HealthInit
  /\ part # "outbox" => "confirm" \in happens
  /\ part # "readmodels" => kind = "order"
  /\ part # "health" => ill = {} /\ registered = MCGateway

ServicesNext ==
  \/ part = "outbox" /\ Next /\ UNCHANGED <<part, ordersVars, sideVars>>
  \/ part = "readmodels" /\ ReadModelNext /\ UNCHANGED <<part, vars, stockVars, checkoutVars, sideVars>>
  \/ part = "stock" /\ StockNext /\ UNCHANGED <<part, vars, readModelVars, checkoutVars, sideVars>>
  \/ part = "checkout" /\ CheckoutNext /\ UNCHANGED <<part, vars, readModelVars, stockVars, sideVars>>
  \/ part = "users" /\ UserNext /\ UNCHANGED <<part, vars, ordersVars, healthVars>>
  \/ part = "health" /\ HealthNext /\ UNCHANGED <<part, vars, ordersVars, userVars>>

ServicesSpec == ServicesInit /\ [][ServicesNext]_servicesVars

(* The part that moves keeps to the types of its state.                    *)
ServicesTypeOK ==
  CASE part = "outbox"     -> TypeOK
    [] part = "readmodels" -> ReadModelTypeOK
    [] part = "stock"      -> StockTypeOK
    [] part = "users"      -> UserTypeOK
    [] part = "checkout"   -> CheckoutTypeOK
    [] part = "health"     -> HealthTypeOK

-----------------------------------------------------------------------------
(* Replicas run the same code: their workers are interchangeable.          *)
WorkerSymmetry == Permutations(Workers)

MCMaxEvents == [order |-> 6, history |-> 6, payment |-> 4, product |-> 3]
MCLevels == {-1, 1}
MCProductOf == [i \in Inventories |-> "pA"]
=============================================================================
