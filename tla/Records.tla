------------------------------ MODULE Records ------------------------------
(***************************************************************************)
(* The records ARALD's programs exchange as JSON: what each writer lets    *)
(* through, which of its fields a signature covers and in which order, what*)
(* JSON does to them on the way, and what each reader insists on.  The     *)
(* same formats are written by three programs (the node, the phone, the    *)
(* portal) and read by two (the node, the backend that mirrors it).        *)
(*                                                                         *)
(* A record is a function from field names to values; a value is its class:*)
(* two short strings that are also hex, the words the code compares with,  *)
(* the empty and an over-long string, numbers inside and outside each      *)
(* range, and what JSON and JavaScript add to them.                        *)
(***************************************************************************)
EXTENDS Naturals, Sequences, SequencesExt

absent == "absent"
Words == {"info", "hazard", "emergency", "reboot", "zstd", "fixed", "mobile", "ONLINE", "OFFLINE"}
AnyString == {"a", "b", "", "long"} \union Words
NonEmpty == AnyString \ {""}
Text == {"a", "b", "info"}
Hex == {"a", "b"}
Finite == {"1", "2", "-1", "999"}
NonNegative == Finite \ {"-1"}
Degrees == Finite \ {"999"}
Few == {"1", "2"}
Kind == {"info", "hazard", "emergency"}
Flag == {"true", "false"}
Values == AnyString \union Finite \union Flag \union {"NaN", "null", "list", absent}
Opt(S) == S \union {absent}

---------------------------------------------------------------------------
(* Writers: for each field, the values that pass the writer's own checks.  *)

publishDrop ==
  [text |-> Text, lat |-> Degrees, lon |-> Degrees, label |-> Opt(Text), kind |-> Kind, timestamp |-> Few]

sendEmergencyBeacon ==
  [message |-> Opt(Text), lat |-> Opt(Degrees), lon |-> Opt(Degrees), timestamp |-> Few]

buildEmergencyBeaconPacket ==
  [message |-> Opt(Text), lat |-> Opt(Degrees), lon |-> Opt(Degrees), timestamp |-> Few]

publishChannelMessage == [text |-> Text, timestamp |-> Few]

appendToNode ==
  [type |-> {"node-append"}, text |-> Text, label |-> Opt(Text), kind |-> Kind,
   timestamp |-> Few, expiresAt |-> Few]

shareLocation ==
  [type |-> {"location-report"}, lat |-> Degrees, lon |-> Degrees, accuracy |-> Opt(NonNegative),
   timestamp |-> Few]

reportRelayTelemetry == [type |-> {"relay-telemetry"}, batteryPercent |-> Few, timestamp |-> Few]

sendRelayCommand == [type |-> {"relay-command"}, command |-> {"reboot"}, timestamp |-> Few]

createGroup ==
  [type |-> {"group-invite"}, groupId |-> Hex, name |-> Text, groupKey |-> Hex, members |-> {"list"},
   createdBy |-> {"a"}, createdAt |-> Few]

sendExternalDelivery ==
  [destinationId |-> Text, senderEphemeralPublicKey |-> Hex, nonce |-> Hex, ciphertext |-> Hex,
   authTag |-> Hex, authProof |-> Opt(Hex), submittedAt |-> Few]

buildExternalDeliverySubmission ==
  [destinationId |-> Text, senderEphemeralPublicKey |-> Hex, nonce |-> Hex, ciphertext |-> Hex,
   authTag |-> Hex, submittedAt |-> Few]

publishContent ==
  [contentId |-> Hex, name |-> Text, mimeType |-> {"a"}, size |-> NonNegative, createdAt |-> Few,
   publisherId |-> {"a"}, expiresAt |-> Opt(Few), encoding |-> Opt({"zstd"}),
   originalSize |-> Opt(NonNegative), priority |-> Opt(Few)]

(* The phone's SOS and the portal's drop carry neither encoding nor priority. *)
signedWithoutEncoding ==
  [contentId |-> Hex, name |-> Text, mimeType |-> {"a"}, size |-> NonNegative, createdAt |-> Few,
   publisherId |-> {"a"}, expiresAt |-> Few]

signNodeAppend ==
  [text |-> Text, label |-> Opt(Text), kind |-> Kind, timestamp |-> Few, expiresAt |-> Few,
   targetNodeId |-> Hex, publisherId |-> {"a"}]

signRelayCommand ==
  [command |-> {"reboot"}, timestamp |-> Few, targetNodeId |-> Hex, publisherId |-> {"a"}]

signGroupMessage ==
  [groupId |-> Hex, senderId |-> {"a"}, nonce |-> Hex, ciphertext |-> Hex, authTag |-> Hex]

registerService ==
  [serviceId |-> Text, version |-> Text, capabilities |-> {"list"}, providerId |-> {"a"},
   resourceRequirements |-> Opt(Text), availability |-> Flag, createdAt |-> Few]

signIdentityAnnouncement ==
  [nodeId |-> {"a"}, encryptionPublicKey |-> Hex, deviceClass |-> Opt(Text)]

signDiscoveryRegistration ==
  [nodeId |-> {"a"}, address |-> Text, label |-> Opt(Text), timestamp |-> Few]

(* A beacon under the node's emergency key; a relay an operator registers; one *)
(* destination of the directory a Box publishes; the node's own status.    *)
sealedBeacon == [encrypted |-> {"true"}, nonce |-> Hex, ciphertext |-> Hex, authTag |-> Hex]

registerRelay ==
  [relayId |-> Hex, type |-> {"fixed", "mobile"}, lat |-> Degrees, lon |-> Degrees, radio |-> Opt({"list"}),
   operator |-> Opt(Text), installedAt |-> Opt(Few)]

publishDirectory ==
  [destinationId |-> Text, label |-> Text, publicKeyHex |-> Hex, requiresPassword |-> Flag]

buildStatus ==
  [nodeId |-> Hex, displayName |-> AnyString, connected |-> Flag, peers |-> Few, relaying |-> Flag,
   internet |-> {"ONLINE", "OFFLINE"}, localNetwork |-> {"ONLINE", "OFFLINE"}, services |-> Few,
   cachedContentPercent |-> Few, networkName |-> Opt(Text), deviceClass |-> Opt(Text)]

---------------------------------------------------------------------------
(* Signing payloads: the fields a signature covers, in their order.        *)

contentSigningPayload ==
  <<"contentId", "name", "mimeType", "size", "publisherId", "expiresAt", "encoding", "originalSize", "priority">>

phoneContentSigningPayload == <<"contentId", "name", "mimeType", "size", "publisherId", "expiresAt">>

portalContentSigningPayload == <<"contentId", "name", "mimeType", "size", "publisherId", "expiresAt">>

nodeAppendSigningPayload ==
  <<"text", "label", "kind", "timestamp", "expiresAt", "targetNodeId", "publisherId">>

portalNodeAppendSigningPayload ==
  <<"text", "label", "kind", "timestamp", "expiresAt", "targetNodeId", "publisherId">>

relayCommandSigningPayload == <<"command", "timestamp", "targetNodeId", "publisherId">>

portalRelayCommandSigningPayload == <<"command", "timestamp", "targetNodeId", "publisherId">>

groupMessageSigningPayload == <<"groupId", "senderId", "nonce", "ciphertext", "authTag">>

serviceSigningPayload ==
  <<"serviceId", "version", "capabilities", "providerId", "resourceRequirements", "availability", "createdAt">>

identityAnnouncementPayload == <<"nodeId", "encryptionPublicKey", "deviceClass">>

discoverySigningPayload == <<"nodeId", "address", "label", "timestamp">>

---------------------------------------------------------------------------
(* Readers: for each field, the values the reader accepts; what it rebuilds *)
(* has these fields and no other.                                          *)

extractDropPayload ==
  [text |-> Text, lat |-> Degrees, lon |-> Degrees, label |-> Opt(Text), kind |-> Kind, timestamp |-> Finite]

extractEmergencyBeaconPayloadPositioned ==
  [message |-> Opt(Text), lat |-> Degrees, lon |-> Degrees, timestamp |-> Finite]

extractEmergencyBeaconPayload ==
  [message |-> Opt(Text), lat |-> Opt(Degrees), lon |-> Opt(Degrees), timestamp |-> Finite]

extractChannelMessagePayload == [text |-> Text, timestamp |-> Finite]

extractNodeAppendPayload ==
  [type |-> {"node-append"}, text |-> Text, label |-> Opt(Text), kind |-> Kind,
   timestamp |-> Finite, expiresAt |-> Finite]

extractLocationReport ==
  [type |-> {"location-report"}, lat |-> Degrees, lon |-> Degrees, accuracy |-> Opt(NonNegative),
   timestamp |-> Finite]

extractRelayTelemetry == [type |-> {"relay-telemetry"}, batteryPercent |-> Few, timestamp |-> Finite]

extractRelayCommand == [type |-> {"relay-command"}, command |-> {"reboot"}, timestamp |-> Finite]

extractGroupInvite ==
  [type |-> {"group-invite"}, groupId |-> Hex, name |-> Text, groupKey |-> Hex, members |-> {"list"},
   createdBy |-> AnyString, createdAt |-> Finite]

extractChatText == [text |-> AnyString \ {"long"}]

extractExternalDeliveryPayload ==
  [destinationId |-> Text, senderEphemeralPublicKey |-> Hex, nonce |-> Hex, ciphertext |-> Hex \union {""},
   authTag |-> Hex, authProof |-> Opt(Hex), submittedAt |-> Finite]

extractIngestMetadataForgetful ==
  [contentId |-> NonEmpty, name |-> NonEmpty, mimeType |-> NonEmpty, size |-> NonNegative,
   createdAt |-> Finite, publisherId |-> NonEmpty, expiresAt |-> Opt(Finite), encoding |-> Opt({"zstd"}),
   originalSize |-> Opt(NonNegative)]

extractIngestMetadata ==
  [contentId |-> NonEmpty, name |-> NonEmpty, mimeType |-> NonEmpty, size |-> NonNegative,
   createdAt |-> Finite, publisherId |-> NonEmpty, expiresAt |-> Opt(Finite), encoding |-> Opt({"zstd"}),
   originalSize |-> Opt(NonNegative), priority |-> Opt(Few)]

verifySignedNodeAppendSubmission ==
  [text |-> Text, label |-> Opt(Text), kind |-> Kind, timestamp |-> Finite, expiresAt |-> Finite,
   targetNodeId |-> NonEmpty, publisherId |-> NonEmpty]

verifySignedRelayCommandSubmission ==
  [command |-> {"reboot"}, timestamp |-> Finite, targetNodeId |-> NonEmpty, publisherId |-> NonEmpty]

verifyGroupMessage ==
  [groupId |-> Hex, senderId |-> NonEmpty, nonce |-> AnyString, ciphertext |-> AnyString, authTag |-> AnyString]

(* The announcements are passed on as they came: every field is kept.      *)
verifyServiceAnnouncement ==
  [serviceId |-> Values, version |-> Values, capabilities |-> {"list"}, providerId |-> Values \ {"", "null", absent},
   resourceRequirements |-> Values, availability |-> Values, createdAt |-> Values]

verifyIdentityAnnouncement == [nodeId |-> Values, encryptionPublicKey |-> Values, deviceClass |-> Opt(Text)]

verifyDiscoveryRegistration ==
  [nodeId |-> NonEmpty, address |-> Text, label |-> Opt(Text), timestamp |-> Finite]

extractEmergencyBeaconEnvelope ==
  [encrypted |-> {"true"}, nonce |-> AnyString, ciphertext |-> AnyString, authTag |-> AnyString]

extractRelayRegistration ==
  [relayId |-> Text, type |-> {"fixed", "mobile"}, lat |-> Degrees, lon |-> Degrees, radio |-> Opt({"list"}),
   operator |-> Opt(Text), installedAt |-> Opt(Finite)]

extractExternalDeliveryDirectoryPayload ==
  [destinationId |-> Text, label |-> Text, publicKeyHex |-> Hex, requiresPassword |-> Flag]

---------------------------------------------------------------------------
(* The rows the backend takes from the node's own answers.                 *)

extractDropRow ==
  [dropId |-> NonEmpty, author |-> AnyString, text |-> AnyString, lat |-> Finite, lon |-> Finite,
   kind |-> AnyString, timestamp |-> Finite]

extractEmergencyBeaconRowPositioned ==
  [beaconContentId |-> NonEmpty, deviceId |-> NonEmpty, message |-> Values, lat |-> Finite, lon |-> Finite,
   timestamp |-> Finite]

(* A message or a position of another type is dropped, the row is kept.    *)
extractEmergencyBeaconRow ==
  [beaconContentId |-> NonEmpty, deviceId |-> NonEmpty, message |-> Values, lat |-> Values, lon |-> Values,
   timestamp |-> Finite]

extractNodeAppendRow ==
  [appendId |-> NonEmpty, text |-> AnyString, kind |-> AnyString, timestamp |-> Finite]

extractServiceRow ==
  [serviceId |-> NonEmpty, version |-> AnyString, capabilities |-> {"list"}, providerId |-> NonEmpty,
   isLocal |-> Flag, availability |-> Flag]

extractExternalDeliveryDestinationRow ==
  [destinationId |-> NonEmpty, boxNodeId |-> NonEmpty, label |-> NonEmpty, publicKeyHex |-> NonEmpty,
   requiresPassword |-> Flag]

extractRelayRow ==
  [relayId |-> NonEmpty, type |-> {"fixed", "mobile"}, lat |-> Finite, lon |-> Finite, online |-> Flag,
   batteryPercent |-> Values]

extractStatusRow ==
  [nodeId |-> NonEmpty, displayName |-> AnyString, connected |-> Flag, peers |-> Finite, relaying |-> Flag,
   internet |-> {"ONLINE", "OFFLINE"}, localNetwork |-> {"ONLINE", "OFFLINE"}, services |-> Finite,
   cachedContentPercent |-> Finite]

---------------------------------------------------------------------------
(* Every format: who writes it, who reads it, under which signature, and   *)
(* as which row the backend mirrors it.                                    *)
Unsigned == <<>>
NoRow == [none |-> {}]
Form(writer, signs, reader, checks, author, row) ==
  [writer |-> writer, signs |-> signs, reader |-> reader, checks |-> checks, author |-> author, row |-> row]
Plain(writer, reader, row) == Form(writer, Unsigned, reader, Unsigned, absent, row)

Formats ==
  [drop |-> Plain(publishDrop, extractDropPayload, extractDropRow),
   beacon |-> Plain(sendEmergencyBeacon, extractEmergencyBeaconPayload, extractEmergencyBeaconRow),
   phoneBeacon |-> Plain(buildEmergencyBeaconPacket, extractEmergencyBeaconPayload, extractEmergencyBeaconRow),
   envelope |-> Plain(sealedBeacon, extractEmergencyBeaconEnvelope, NoRow),
   channel |-> Plain(publishChannelMessage, extractChannelMessagePayload, NoRow),
   append |-> Plain(appendToNode, extractNodeAppendPayload, extractNodeAppendRow),
   location |-> Plain(shareLocation, extractLocationReport, NoRow),
   telemetry |-> Plain(reportRelayTelemetry, extractRelayTelemetry, NoRow),
   command |-> Plain(sendRelayCommand, extractRelayCommand, NoRow),
   invite |-> Plain(createGroup, extractGroupInvite, NoRow),
   delivery |-> Plain(sendExternalDelivery, extractExternalDeliveryPayload, NoRow),
   portalDelivery |-> Plain(buildExternalDeliverySubmission, extractExternalDeliveryPayload, NoRow),
   relay |-> Plain(registerRelay, extractRelayRegistration, extractRelayRow),
   directory |-> Plain(publishDirectory, extractExternalDeliveryDirectoryPayload,
                       extractExternalDeliveryDestinationRow),
   status |-> Plain(buildStatus, buildStatus, extractStatusRow),
   content |-> Form(publishContent, contentSigningPayload, extractIngestMetadata, contentSigningPayload,
                    "publisherId", NoRow),
   phoneContent |-> Form(signedWithoutEncoding, phoneContentSigningPayload, extractIngestMetadata,
                         contentSigningPayload, "publisherId", NoRow),
   portalContent |-> Form(signedWithoutEncoding, portalContentSigningPayload, extractIngestMetadata,
                          contentSigningPayload, "publisherId", NoRow),
   portalAppend |-> Form(signNodeAppend, portalNodeAppendSigningPayload, verifySignedNodeAppendSubmission,
                         nodeAppendSigningPayload, "publisherId", extractNodeAppendRow),
   portalCommand |-> Form(signRelayCommand, portalRelayCommandSigningPayload,
                          verifySignedRelayCommandSubmission, relayCommandSigningPayload, "publisherId", NoRow),
   groupMessage |-> Form(signGroupMessage, groupMessageSigningPayload, verifyGroupMessage,
                         groupMessageSigningPayload, "senderId", NoRow),
   service |-> Form(registerService, serviceSigningPayload, verifyServiceAnnouncement, serviceSigningPayload,
                    "providerId", extractServiceRow),
   identity |-> Form(signIdentityAnnouncement, identityAnnouncementPayload, verifyIdentityAnnouncement,
                     identityAnnouncementPayload, "nodeId", NoRow),
   discovery |-> Form(signDiscoveryRegistration, discoverySigningPayload, verifyDiscoveryRegistration,
                      discoverySigningPayload, "nodeId", NoRow)]
Forms == DOMAIN Formats
Signed == {f \in Forms : Formats[f].checks # Unsigned}

(* What a private message may turn out to be: every reader tries it.       *)
PrivateForms == {"append", "location", "telemetry", "command", "invite"}

---------------------------------------------------------------------------
refused == [refused |-> "refused"]
Field(r, f) == IF f \in DOMAIN r THEN r[f] ELSE absent

(* JSON.stringify: an undefined field is left out, NaN becomes null; the   *)
(* fields of a signed object come in the order they are written in.        *)
JsonValue(v) == IF v = "NaN" THEN "null" ELSE v
Json(r) == [f \in {g \in DOMAIN r : r[g] # absent} |-> JsonValue(r[f])]
SignedBytes(order, r) ==
  [i \in 1..Len(SelectSeq(order, LAMBDA f : Field(r, f) # absent)) |->
     LET f == SelectSeq(order, LAMBDA g : Field(r, g) # absent)[i] IN <<f, JsonValue(r[f])>>]

(* A reader: every field it knows passes its check, or the whole is refused. *)
Extract(rule, r) ==
  IF \A f \in DOMAIN rule : Field(r, f) \in rule[f]
  THEN [f \in DOMAIN rule |-> Field(r, f)] ELSE refused

(* A signature is the author's key and the bytes signed with it; it holds  *)
(* for a record if that is its author and those are its bytes.             *)
SignatureOfAuthor(form, read, s) == s # <<>> /\ s[1] = Field(read, form.author)

SignatureHolds(form, read, s) == s = <<Field(read, form.author), SignedBytes(form.checks, read)>>

Verified(form, r, s) ==
  LET read == Extract(form.reader, r) IN
  IF read = refused \/ form.checks = Unsigned \/ SignatureHolds(form, read, s) THEN read ELSE refused

(* What the node's API lists of a record it read, with the names it gives. *)
Given == [dropId |-> "a", author |-> "a", beaconContentId |-> "a", deviceId |-> "a", appendId |-> "a",
          boxNodeId |-> "a", isLocal |-> "true", online |-> "false"]
Listed(r) == [f \in DOMAIN r \union DOMAIN Given |-> IF f \in DOMAIN r THEN r[f] ELSE Given[f]]

---------------------------------------------------------------------------
VARIABLES form, made, wire, sig, to, stage, touched, got, row
vars == <<form, made, wire, sig, to, stage, touched, got, row>>

(* Records a writer can make: any set of its optional fields left out, and *)
(* one field with any value it lets through.                               *)
Usual(S) == CHOOSE v \in S \ {absent} : TRUE
Made(rule) ==
  {[f \in DOMAIN rule |-> IF f = odd[1] THEN odd[2] ELSE IF f \in left THEN absent ELSE Usual(rule[f])] :
     left \in SUBSET {f \in DOMAIN rule : absent \in rule[f]},
     odd \in UNION {{<<f, v>> : v \in rule[f]} : f \in DOMAIN rule}}
Consistent(r) == (Field(r, "encoding") = absent) = (Field(r, "originalSize") = absent)

Init ==
  /\ form \in Forms
  /\ made \in {r \in Made(Formats[form].writer) : Consistent(r)}
  /\ wire = <<>> /\ sig = <<>> /\ to = form /\ stage = "made" /\ touched = FALSE
  /\ got = refused /\ row = refused

Send ==
  /\ stage = "made" /\ stage' = "wire"
  /\ wire' = Json(made)
  /\ sig' = IF Formats[form].signs = Unsigned THEN <<>>
            ELSE <<made[Formats[form].author], SignedBytes(Formats[form].signs, made)>>
  /\ UNCHANGED <<form, made, to, touched, got, row>>

(* A courier hands on a signed record with one field changed, or hands its *)
(* signature to the reader of another format.                              *)
Altered == {absent, "null", "b", "2", "hazard"}
Courier ==
  /\ stage = "wire" /\ form \in Signed /\ ~touched /\ touched' = TRUE
  /\ \/ /\ \E f \in DOMAIN Formats[form].reader, v \in Altered :
            /\ v # Field(wire, f)
            /\ wire' = [g \in (DOMAIN wire \union {f}) \ (IF v = absent THEN {f} ELSE {}) |->
                        IF g = f THEN v ELSE wire[g]]
        /\ UNCHANGED to
     \/ /\ to' \in {g \in Signed : Formats[g].reader # Formats[form].reader}
        /\ UNCHANGED wire
  /\ UNCHANGED <<form, made, sig, stage, got, row>>

Read ==
  /\ stage = "wire" /\ stage' = "read"
  /\ got' = Verified(Formats[to], wire, sig)
  /\ UNCHANGED <<form, made, wire, sig, to, touched, row>>

Mirror ==
  /\ stage = "read" /\ got # refused /\ Formats[to].row # NoRow
  /\ stage' = "mirrored"
  /\ row' = Extract(Formats[to].row, Json(Listed(got)))
  /\ UNCHANGED <<form, made, wire, sig, to, touched, got>>

Next == Send \/ Courier \/ Read \/ Mirror
Spec == Init /\ [][Next]_vars

---------------------------------------------------------------------------
(* Whatever a writer's own checks let through, the reader at the other end *)
(* accepts with every field as it was written: the bytes the phone and the *)
(* portal sign are those the node computes, with or without the optional   *)
(* fields, also after the ingest endpoint has rebuilt the metadata         *)
(* (extractIngestMetadata, verifyContentSignature).                        *)
WrittenIsRead ==
  stage \in {"read", "mirrored"} /\ ~touched =>
    /\ got # refused
    /\ \A f \in DOMAIN made : made[f] # absent => Field(got, f) = made[f]

(* A record is accepted only as its author signed it: one changed field, or *)
(* a signature made for a record of another kind, is refused (the signed   *)
(* payloads of no two kinds are the same bytes).                           *)
AcceptedAsSigned ==
  stage \in {"read", "mirrored"} /\ to \in Signed /\ got # refused =>
    /\ Formats[to].checks = Formats[form].checks
    /\ \A i \in DOMAIN Formats[to].checks :
         Field(got, Formats[to].checks[i]) = Field(made, Formats[to].checks[i])

(* What an honest writer got listed by a node is mirrored by the backend,  *)
(* with the fields the node lists: a beacon without a position too.        *)
MirroredAsListed ==
  stage = "mirrored" /\ ~touched =>
    /\ row # refused
    /\ \A f \in DOMAIN row \intersect DOMAIN got : row[f] = got[f]

(* node.ts:868-869 of what a private message records in the history: "other    *)
(* private-message payloads simply aren't chat messages".                  *)
OnlyChatIsChat ==
  stage = "read" /\ form \in PrivateForms => Extract(extractChatText, wire) = refused
=============================================================================
