------------------------------- MODULE MCAuth -------------------------------
(***************************************************************************)
(* Instances of Auth for TLC: a user and an API key, two permissions, and    *)
(* routes with the metadata a service writes.                               *)
(***************************************************************************)
EXTENDS Auth

CONSTANTS u, k, read, write

MCKindOf   == [p \in Principal |-> IF p = u THEN "user" ELSE "service"]
MCTenantOf == [p \in Principal |-> IF p = u THEN "tenant 1" ELSE "tenant 2"]

Unset == [handler |-> None, class |-> None]
On(handler, class) == [handler |-> handler, class |-> class]
Http(public, permissions) == [type |-> "http", public |-> public, permissions |-> permissions]

\* Routes declared as the documents show.
Declared ==
  {Http(Unset, Unset), Http(Unset, On(None, {write})), Http(Unset, On({read, write}, None)),
   Http(On(None, TRUE), Unset),
   [type |-> "ws", public |-> Unset, permissions |-> On({read}, None)]}

\* Routes whose handler and class say different things.
Overridden ==
  {Http(Unset, On({}, {write})), Http(On(TRUE, None), On(None, {read}))}

AllRoutes == Declared \union Overridden

GatedRoutes  == {Http(Unset, On({read}, None)), Http(Unset, On({read}, {write}))}
=============================================================================
