SPECIFICATION Spec
CONSTANTS
  Namespaces <- TwoNamespaces
  Names <- OneName
  SpecsOf <- Specs
  MaxWrites = 3
  Faults = {"kubeconfig", "crdClient", "apiClient", "crdInit", "put", "publish", "watch", "close"}
  MaxFaults = 1
INVARIANTS TypeOK UserDataKept
PROPERTIES ConfigDelivered StatusTruthful
CHECK_DEADLOCK FALSE
