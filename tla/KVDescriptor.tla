---------------------------- MODULE KVDescriptor ----------------------------
(***************************************************************************)
(* What the scheduler sees of a descriptor: the generated adapters         *)
(* (plugins/nsmplugin/descriptor/adapter) pass on exactly the callbacks    *)
(* that the typed descriptor defines, and the scheduler (external) makes   *)
(* up for the ones that are missing.                                       *)
(***************************************************************************)
EXTENDS GoMaps

Callbacks ==
  {"ValueComparator", "Validate", "Create", "Delete", "Update", "UpdateWithRecreate",
   "Retrieve", "Dependencies", "DerivedValues"}

\* The typed descriptors of clients and of endpoints.
typedClientDescr == {"Validate", "Create", "Delete"}
typedEndpointDescr == {"Validate", "Create", "Delete"}

NewNSMClientDescriptor(typed) == {c \in Callbacks : c \in typed}
NewNSMEndpointDescriptor(typed) == {c \in Callbacks : c \in typed}

clientDescr == NewNSMClientDescriptor(typedClientDescr)
endpointDescr == NewNSMEndpointDescriptor(typedEndpointDescr)

\* Without Update a modified value is deleted and created anew.
isRecreated(descr, old, new) == old # new /\ "Update" \notin descr

\* Without Retrieve nothing is known to exist when the scheduler starts.
knownAtStart(descr, values) == IF "Retrieve" \in descr THEN values ELSE Empty

\* Without Validate every value is let through.
isValid(descr, result) == "Validate" \in descr => result
=============================================================================
