------------------------------ MODULE Uploads -------------------------------
(***************************************************************************)
(* How the attachments of a send request are read into memory and measured: *)
(* piece by piece in the router, file by file in the router and once more  *)
(* in send_message.  A buffer is its length.                               *)
(***************************************************************************)
EXTENDS Naturals, Sequences

CONSTANTS
  MaxFiles,  \* MAX_ATTACHMENTS_PER_MESSAGE
  MaxBytes,  \* MAX_ATTACHMENT_BYTES, for each file and for all together
  Piece,     \* bytes that are read at a time
  Largest    \* bytes of the largest file that is sent (bound)

ASSUME UploadAssumption ==
  MaxFiles \in Nat /\ MaxBytes \in Nat /\ Piece \in Nat \ {0} /\ Largest \in Nat

VARIABLES
  files,  \* the sizes of the files of the request
  kept,   \* the sizes of those that have been read (file_tuples)
  buf,    \* bytes of the next one that have been collected
  chunk,  \* bytes of the piece that was collected last, which stays bound
  fresh,  \* bytes of the piece that has just been read
  data,   \* bytes of the copy that is returned, until it is kept
  at      \* "read", "extend" (a piece was read), "copied"; "stored", "refused"

uploadvars == <<files, kept, buf, chunk, fresh, data, at>>

-----------------------------------------------------------------------------
UploadInit ==
  /\ files \in UNION {[1..n -> 0..Largest] : n \in 0..(MaxFiles + 1)}
  /\ kept = << >>
  /\ buf = 0 /\ chunk = 0 /\ fresh = 0 /\ data = 0
  /\ at = "read"

Lesser(m, n) == IF m < n THEN m ELSE n

(* `total` after each of the files. *)
Totals(sizes) ==
  LET total[i \in 0..Len(sizes)] == IF i = 0 THEN 0 ELSE total[i - 1] + sizes[i]
  IN total
Total(sizes) == Totals(sizes)[Len(sizes)]

TooMany == Len(files) > MaxFiles
Current == files[Len(kept) + 1]

(* Mutant: the file is measured when it is complete. *)
TooLarge_AtEnd(bytes) == bytes > MaxBytes /\ bytes = Current
TooLarge(bytes) == bytes > MaxBytes

AllTooLarge(bytes) == Total(kept) + bytes > MaxBytes

Reading == ~TooMany /\ Len(kept) < Len(files)

(* The piece before is still bound while the next one is read. *)
ReadPiece ==
  /\ at = "read"
  /\ Reading
  /\ buf < Current
  /\ fresh' = Lesser(Piece, Current - buf)
  /\ at' = "extend"
  /\ UNCHANGED <<files, kept, buf, chunk, data>>

ExtendBuf ==
  /\ at = "extend"
  /\ buf' = buf + fresh
  /\ chunk' = fresh
  /\ fresh' = 0
  /\ at' = IF TooLarge(buf') THEN "refused" ELSE "read"
  /\ UNCHANGED <<files, kept, data>>

(* An empty read: the file is complete, and copied while `buf` lives. *)
CopyBuf ==
  /\ at = "read"
  /\ Reading
  /\ buf = Current
  /\ chunk' = 0
  /\ data' = buf
  /\ at' = "copied"
  /\ UNCHANGED <<files, kept, buf, fresh>>

KeepFile ==
  /\ at = "copied"
  /\ buf' = 0
  /\ IF AllTooLarge(data)
       THEN at' = "refused" /\ UNCHANGED <<kept, data>>
       ELSE at' = "read" /\ kept' = Append(kept, data) /\ data' = 0
  /\ UNCHANGED <<files, chunk, fresh>>

RefuseTooMany ==
  /\ at = "read"
  /\ TooMany
  /\ at' = "refused"
  /\ UNCHANGED <<files, kept, buf, chunk, fresh, data>>

(* send_message. *)
StoreFiles ==
  /\ at = "read"
  /\ ~TooMany
  /\ Len(kept) = Len(files)
  /\ at' = IF \E i \in DOMAIN kept : kept[i] > MaxBytes \/ Totals(kept)[i] > MaxBytes
             THEN "refused" ELSE "stored"
  /\ UNCHANGED <<files, kept, buf, chunk, fresh, data>>

UploadNext == ReadPiece \/ ExtendBuf \/ CopyBuf \/ KeepFile \/ RefuseTooMany \/ StoreFiles

UploadSpec == UploadInit /\ [][UploadNext]_uploadvars

-----------------------------------------------------------------------------
(* Properties. *)

Held == Total(kept) + buf + chunk + fresh + data

Greater(m, n) == IF m < n THEN n ELSE m

(* "a hard cap": however large the files are, the buffers of the request    *)
(* never hold more than the limit for what is kept, again for what is      *)
(* being read, and on top of both a second copy of a file or two pieces.   *)
MemoryCapped == Held <= 2 * MaxBytes + Greater(MaxBytes, 2 * Piece)

(* A message is stored exactly when its files are few and small enough, to  *)
(* the byte; in particular the checks of the router leave send_message     *)
(* nothing to refuse, so that no work is thrown away after them.           *)
VerdictExact ==
  /\ at \in {"stored", "refused"} =>
       (at = "stored" <=> ~TooMany /\ Total(files) <= MaxBytes)
  /\ at = "read" /\ Len(kept) = Len(files) => Total(kept) <= MaxBytes

(* The limits hold, in memory and to the byte. *)
UploadLimitsHold == MemoryCapped /\ VerdictExact
=============================================================================
