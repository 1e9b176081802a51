-------------------------- MODULE AccountRegistry --------------------------
(***************************************************************************)
(* AccountRegistry (cpp/detectors/account_registry.cpp): what is known of    *)
(* the accounts, and the relation every detector asks about.  A registry is  *)
(* a value: it is filled before the first event and only read afterwards.    *)
(***************************************************************************)
CONSTANTS Accounts,  \* account ids an event can carry
          Owners,    \* beneficial owners
          NoOwner    \* the empty beneficial_owner_id

Entity == [owner : Owners \cup {NoOwner}, links : SUBSET Accounts]

SameBeneficialOwner(registry, a, b) ==
  /\ {a, b} \subseteq DOMAIN registry
  /\ registry[a].owner # NoOwner
  /\ registry[a].owner = registry[b].owner

LinksTo(registry, a, target) == a \in DOMAIN registry /\ target \in registry[a].links

\* A link counts for both accounts, whichever of them declares it.
AreLinked(registry, a, b) == LinksTo(registry, a, b) \/ LinksTo(registry, b, a)

IsRelated(registry, a, b) ==
  a = b \/ SameBeneficialOwner(registry, a, b) \/ AreLinked(registry, a, b)
=============================================================================
