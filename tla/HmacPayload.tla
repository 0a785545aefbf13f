---------------------------- MODULE HmacPayload -----------------------------
(***************************************************************************)
(* The list of parts that _message_hmac_payload signs: how many there are  *)
(* depends on the recipients and the attachments, and nothing in it says   *)
(* where the ones end and the others begin.  Since each part is signed     *)
(* with its length (LenPrefix), a part is abstracted to the lengths it may *)
(* have; two messages are built side by side and compared.                 *)
(***************************************************************************)
EXTENDS Naturals, Sequences

CONSTANTS
  MaxRecipients,   \* MAX_RECIPIENTS_PER_MESSAGE
  MaxAttachments,  \* MAX_ATTACHMENTS_PER_MESSAGE
  MaxText          \* bytes of the longest subject, body, or attachment (bound)

VARIABLES one, other  \* how many recipients and attachments the messages have

payloadvars == <<one, other>>

-----------------------------------------------------------------------------
Version == {2}
Uuid == {36}
Key == {32}
Nonce == {12}
Tag == {16}
Text == 0..MaxText
Filename == 1..150      \* _safe_filename
ContentType == 3..255   \* _sanitize_content_type
SizeBytes == 1..8       \* digits of at most MAX_ATTACHMENT_BYTES

EncryptedFields == <<Key, Nonce, Tag, Text, Nonce, Tag, Text, Nonce, Tag>>
AttachmentFields == <<Uuid, Filename, ContentType, SizeBytes, Text, Nonce, Tag>>

(* `parts`, n times over. *)
Times(n, parts) == [i \in 1..(n * Len(parts)) |-> parts[((i - 1) % Len(parts)) + 1]]

(* Mutant: of the encrypted fields and the attachments, what varies only. *)
Parts_VariableOnly(m) ==
  <<Version, Uuid, Uuid>> \o Times(m.recipients, <<Uuid>>)
    \o <<Text, Text>> \o Times(m.attachments, <<Uuid, Filename, ContentType, Text>>)
Parts(m) ==
  <<Version, Uuid, Uuid>> \o Times(m.recipients, <<Uuid>>)
    \o EncryptedFields \o Times(m.attachments, AttachmentFields)

Smallest == [recipients |-> 1, attachments |-> 0]

PayloadInit == one = Smallest /\ other = Smallest

WithRecipient(m) == [m EXCEPT !.recipients = @ + 1]
WithAttachment(m) == [m EXCEPT !.attachments = @ + 1]

AddRecipient ==
  \/ one.recipients < MaxRecipients /\ one' = WithRecipient(one) /\ UNCHANGED other
  \/ other.recipients < MaxRecipients /\ other' = WithRecipient(other) /\ UNCHANGED one

AddAttachment ==
  \/ one.attachments < MaxAttachments /\ one' = WithAttachment(one) /\ UNCHANGED other
  \/ other.attachments < MaxAttachments /\ other' = WithAttachment(other) /\ UNCHANGED one

PayloadNext == AddRecipient \/ AddAttachment

PayloadSpec == PayloadInit /\ [][PayloadNext]_payloadvars

-----------------------------------------------------------------------------
(* Properties. *)

MayBeEqual(parts, others) ==
  /\ Len(parts) = Len(others)
  /\ \A i \in DOMAIN parts : parts[i] \cap others[i] # {}

(* A list of parts is that of one message only: one recipient and an        *)
(* attachment have as many parts as eight recipients and no attachment,    *)
(* but an id does not have the length of an encrypted key.                 *)
Unambiguous == one # other => ~MayBeEqual(Parts(one), Parts(other))
=============================================================================
