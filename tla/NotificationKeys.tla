-------------------------- MODULE NotificationKeys --------------------------
(***************************************************************************)
(* The keys under which endpoints are announced (proto/nsm/keys.go): an    *)
(* agent publishes under EndpointNotificationKey, another agent that       *)
(* watches the KVDB reads the label back with                              *)
(* ParseEndpointNotificationKey.  A string is the sequence of its parts    *)
(* between slashes.                                                        *)
(***************************************************************************)
EXTENDS Integers, Sequences, SequencesExt

CONSTANTS
  ServiceNames,   \* network service names: sequences of parts, << >> is ""
  LabelKeys,      \* label keys, one part each or ""
  LabelValues     \* label values, one part each or ""

VARIABLES
  published,      \* arguments and key of the published notification, or << >>
  received        \* what the watching agent has read from the key, or << >>

vars == <<published, received>>

InvalidKeyPart == "<invalid>"

EndpointNotificationKeyPrefix == <<"notification", "nsm", "endpoint">>

valid(part) == IF part = "" THEN InvalidKeyPart ELSE part

EndpointNotificationKey(ns, labelKey, labelValue) ==
  EndpointNotificationKeyPrefix \o <<"service">>
    \o (IF ns = << >> THEN <<InvalidKeyPart>> ELSE ns)
    \o <<"label", valid(labelKey), valid(labelValue)>>

NotParsed == [ok |-> FALSE, ns |-> << >>, labelKey |-> "", labelValue |-> ""]

\* The key is split, not what is left of it behind the prefix.
ParseEndpointNotificationKey(key) ==
  LET parts == key
      labelIdx == Len(parts) - 3
      part(i) == parts[i + 1]
  IN  IF \/ ~IsPrefix(EndpointNotificationKeyPrefix, key)
         \/ Len(parts) < 5
         \/ part(0) # "service"
         \/ part(labelIdx) # "label"
      THEN NotParsed
      ELSE [ok |-> TRUE, ns |-> SubSeq(parts, 3, labelIdx),
            labelKey |-> part(labelIdx + 1), labelValue |-> part(labelIdx + 2)]

Init == published = << >> /\ received = << >>

Publish(ns, labelKey, labelValue) ==
  /\ published = << >>
  /\ published' = [ns |-> ns, labelKey |-> labelKey, labelValue |-> labelValue,
                   key |-> EndpointNotificationKey(ns, labelKey, labelValue)]
  /\ UNCHANGED received

Receive ==
  /\ published # << >>
  /\ received = << >>
  /\ received' = ParseEndpointNotificationKey(published.key)
  /\ UNCHANGED published

Next ==
  \/ \E ns \in ServiceNames, k \in LabelKeys, v \in LabelValues : Publish(ns, k, v)
  \/ Receive

Spec == Init /\ [][Next]_vars

\* The label of a published notification is read back from its key
\* (ParseEndpointNotificationKey: "parses network service name and the endpoint
\* advertised label from a key used for a notification about a created
\* endpoint").
LabelReadBack ==
  received # << >> =>
    /\ received.ok
    /\ published.ns # << >> => received.ns = published.ns
    /\ published.labelKey # "" => received.labelKey = published.labelKey
    /\ published.labelValue # "" => received.labelValue = published.labelValue
=============================================================================
