\* Every combination of empty and full fields.
SPECIFICATION Spec
INVARIANTS AddressingKeepsPgn FiltersMatchPredicates AddressFramesRoundTrip
PROPERTIES NameFieldsIndependent PriorityFollowsFields HeaderFieldsIndependent
