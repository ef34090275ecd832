---------------------------- MODULE AuditLedger ----------------------------
(***************************************************************************)
(* The JSONL hash chain of audit records (JsonlAuditLedgerAdapter of       *)
(* govengine/admission.py): an append reads the ledger, links its entry to *)
(* the last entry it read, and adds one line to the file.                  *)
(*                                                                         *)
(* Reading and writing are separate steps, between which other writers may *)
(* append: the adapter takes no lock.  A crash while a line is written     *)
(* leaves nothing, a fragment, or a line without its end; lines may go     *)
(* missing.  What went wrong is remembered in incidents, so that each      *)
(* property names what it withstands.  The digest of an entry is what it   *)
(* says and what the entries it is linked to say, so equal digests mean    *)
(* equal chains.                                                           *)
(***************************************************************************)
EXTENDS Naturals, Sequences, FiniteSets

CONSTANTS
  Writers,
  AuditRecords,
  ReadLimit,   \* the default limit of read
  PageLimits,  \* the limits a host pages with
  MaxLines     \* bound: no append begins on this many lines

ASSUME LedgerAssumption ==
  ReadLimit \in Nat \ {0} /\ PageLimits \subseteq Nat \ {0} /\ MaxLines \in Nat

VARIABLES
  lines,        \* the file: lines [entry, readable]
  terminated,   \* whether the last line is complete
  writer,       \* the appends under way
  pages,        \* the entries a host has read page by page
  acknowledged, \* the results that said "appended" (history)
  incidents     \* what happened beside appends in turn (history)

ledgerVars == <<lines, terminated, writer, pages, acknowledged, incidents>>

NotAppending == [stage |-> "idle"]

NoDigest == <<>>

(* audit_ledger_entry_digest. *)
EntryDigest(entry) == Append(entry.previous, <<entry.sequence, entry.record>>)

LastDigest(entries) ==
  IF entries = <<>> THEN NoDigest ELSE EntryDigest(entries[Len(entries)])

LedgerInit ==
  /\ lines = <<>> /\ terminated = TRUE
  /\ writer = [w \in Writers |-> NotAppending]
  /\ pages = <<>> /\ acknowledged = {} /\ incidents = {}

(* validate_audit_record: the record's type and schema are known. *)
AuditRecordTypes ==
  {"admission_decision", "policy_decision", "approval_request", "operator_review"}

ValidAuditRecord(r) == r.record_type \in AuditRecordTypes /\ r.schema_version = "v0.1"

(* An entry's id is told by its sequence number.                           *)
EntryId(entry) == entry.sequence + 1
NoId == 0

(* AuditLedgerAppendResult *)
AppendResult(entry) ==
  [status |-> "appended", entry_id |-> EntryId(entry), sequence |-> entry.sequence,
   entry_digest |-> EntryDigest(entry)]

(* A plausible regression: a page begins with the entry it was to follow.  *)
After_Including(after) ==
  IF after = NoId THEN 0
  ELSE LET at == {i \in DOMAIN lines : lines[i].readable /\ EntryId(lines[i].entry) = after}
       IN  IF at = {} THEN Len(lines) ELSE (CHOOSE i \in at : \A j \in at : i <= j) - 1

(* read, up to the limit: where it stops, and what it returns.  It starts  *)
(* after the first entry with the id; a line that is not one JSON object   *)
(* raises if it is reached.                                                *)
After(after) ==
  IF after = NoId THEN 0
  ELSE LET at == {i \in DOMAIN lines : lines[i].readable /\ EntryId(lines[i].entry) = after}
       IN  IF at = {} THEN Len(lines) ELSE CHOOSE i \in at : \A j \in at : i <= j

Until(after, limit) ==
  IF After(after) + limit < Len(lines) THEN After(after) + limit ELSE Len(lines)

ReadableAfter(after, limit) == \A i \in 1 .. Until(after, limit) : lines[i].readable

EntriesAfter(after, limit) ==
  [i \in 1 .. Until(after, limit) - After(after) |-> lines[After(after) + i].entry]

Readable(limit) == ReadableAfter(NoId, limit)
Entries(limit) == EntriesAfter(NoId, limit)

(* The entry that append builds on what it read. *)
NextEntry(existing, record) ==
  [sequence |-> Len(existing), record |-> record, previous |-> LastDigest(existing)]

(* Two things a host may rule out: that an append under way is overtaken,  *)
(* which a lock prevents, and that one begins on more lines than it reads. *)
Overtaking == IF \E v \in Writers : writer[v] # NotAppending THEN {"race"} ELSE {}

PastLimit == IF Len(lines) > ReadLimit THEN {"past_limit"} ELSE {}

(* append, up to the entry: it may raise, or be rejected.  A record that   *)
(* is not valid raises before anything is read.                            *)
ReadLedger(w, record, supplied) ==
  LET existing == Entries(ReadLimit)
      entry == NextEntry(existing, record)
      accepted == Readable(ReadLimit) /\ supplied \in {NoDigest, entry.previous}
  IN  /\ writer[w] = NotAppending
      /\ ValidAuditRecord(record)
      /\ Len(lines) < MaxLines
      /\ writer' = [writer EXCEPT ![w] =
           IF accepted THEN [stage |-> "built", entry |-> entry] ELSE NotAppending]
      /\ incidents' = incidents \cup Overtaking \cup PastLimit
      /\ UNCHANGED <<lines, terminated, pages, acknowledged>>

(* What the file becomes when text is added at its end: after a line that  *)
(* has no end, the text becomes part of that line.                         *)
WithLine(line) ==
  IF terminated THEN Append(lines, line)
  ELSE [lines EXCEPT ![Len(lines)].readable = FALSE]

(* append, from the entry on. *)
WriteLine(w) ==
  /\ writer[w].stage = "built"
  /\ lines' = WithLine([entry |-> writer[w].entry, readable |-> TRUE])
  /\ terminated' = TRUE
  /\ acknowledged' = acknowledged \cup {AppendResult(writer[w].entry)}
  /\ writer' = [writer EXCEPT ![w] = NotAppending]
  /\ UNCHANGED <<pages, incidents>>

(* The process dies, or the device fills, before append returns.  (Bound:  *)
(* one crash and one lost line in a behaviour.)                            *)
CrashAppending(w) ==
  /\ writer[w].stage = "built"
  /\ "crash" \notin incidents
  /\ writer' = [writer EXCEPT ![w] = NotAppending]
  /\ \/ UNCHANGED <<lines, terminated>>
     \/ \E whole \in BOOLEAN :
          /\ lines' = WithLine([entry |-> writer[w].entry, readable |-> whole])
          /\ terminated' = FALSE
  /\ incidents' = incidents \cup {"crash"}
  /\ UNCHANGED <<pages, acknowledged>>

(* A line goes missing. *)
LoseLine(i) ==
  /\ incidents \cap {"line_lost", "tail_lost"} = {}
  /\ lines' = SubSeq(lines, 1, i - 1) \o SubSeq(lines, i + 1, Len(lines))
  /\ terminated' = (terminated \/ i = Len(lines))
  /\ incidents' = incidents \cup Overtaking
                  \cup {IF i = Len(lines) THEN "tail_lost" ELSE "line_lost"}
  /\ UNCHANGED <<writer, pages, acknowledged>>

(* A host reads the page after the last entry it has (bound: as long as    *)
(* nothing has happened to the ledger).                                    *)
ReadPage(limit) ==
  LET after == IF pages = <<>> THEN NoId ELSE EntryId(pages[Len(pages)])
  IN  /\ incidents = {}
      /\ ReadableAfter(after, limit)
      /\ EntriesAfter(after, limit) # <<>>
      /\ pages' = pages \o EntriesAfter(after, limit)
      /\ UNCHANGED <<lines, terminated, writer, acknowledged, incidents>>

LedgerNext ==
  \/ \E w \in Writers :
       \/ \E r \in AuditRecords,
             d \in {a.entry_digest : a \in acknowledged} \cup {NoDigest} : ReadLedger(w, r, d)
       \/ WriteLine(w)
       \/ CrashAppending(w)
  \/ \E i \in DOMAIN lines : LoseLine(i)
  \/ \E limit \in PageLimits : ReadPage(limit)

LedgerSpec == LedgerInit /\ [][LedgerNext]_ledgerVars
-----------------------------------------------------------------------------
(* AuditLedgerVerificationResult over a sequence of entries. *)
VerificationResult(status, reason, entries) ==
  [status |-> status, verified |-> status = "verified", checked_entries |-> Len(entries),
   last_entry_id |-> IF entries = <<>> THEN NoId ELSE EntryId(entries[Len(entries)]),
   last_entry_digest |-> LastDigest(entries), reason_code |-> reason,
   blockers |-> IF status = "failed" THEN {reason} ELSE {}]

(* _audit_ledger_failed *)
Failed(reason, entries) == VerificationResult("failed", reason, entries)

OutOfSequence(entries, i) == entries[i].sequence # i - 1
Unlinked(entries, i) == entries[i].previous # LastDigest(SubSeq(entries, 1, i - 1))

(* A plausible regression: only the links between entries are followed. *)
Verify_LinksOnly(entries) ==
  IF entries = <<>> THEN VerificationResult("empty", "empty", <<>>)
  ELSE IF \E i \in DOMAIN entries : i > 1 /\ Unlinked(entries, i)
  THEN Failed("audit_ledger_previous_digest_mismatch", entries)
  ELSE VerificationResult("verified", "verified", entries)

(* verify: sequence numbers and links, up to the first entry that is not   *)
(* in its place.  Entry digests were recomputed when the lines were read.  *)
Verify(entries) ==
  LET broken == {i \in DOMAIN entries : OutOfSequence(entries, i) \/ Unlinked(entries, i)}
      first == CHOOSE i \in broken : \A j \in broken : i <= j
  IN  IF entries = <<>> THEN VerificationResult("empty", "empty", <<>>)
      ELSE IF broken = {} THEN VerificationResult("verified", "verified", entries)
      ELSE Failed(
             IF OutOfSequence(entries, first) THEN "audit_ledger_sequence_mismatch"
             ELSE "audit_ledger_previous_digest_mismatch", entries)

(* verify_audit_ledger_file, and its summary. *)
VerifyFile(limit) ==
  IF limit < 1 THEN Failed("invalid_audit_ledger_read_limit", <<>>)
  ELSE IF ~Readable(limit) THEN Failed("invalid_audit_ledger_jsonl", <<>>)
  ELSE Verify(Entries(limit))

(* A host verifies the whole file. *)
Verified == VerifyFile(Len(lines)).verified
-----------------------------------------------------------------------------
(* A ledger that verifies in full holds every record whose append was      *)
(* answered "appended", each once: racing writers, torn lines and appends  *)
(* past the read limit never go unnoticed, nor do lines lost from the      *)
(* middle of a chain in which every entry has a different predecessor      *)
(* (verify, append).                                                       *)
VerifiedLedgerHoldsEveryRecord ==
  /\ Verified /\ "tail_lost" \notin incidents
  /\ "line_lost" \in incidents => incidents \cap {"race", "past_limit"} = {}
  =>
    \A a \in acknowledged : Cardinality({i \in DOMAIN lines : EntryDigest(lines[i].entry) = a.entry_digest}) = 1

(* A ledger that was appended to in turn and within the read limit         *)
(* verifies in full, and a host that pages through it while it grows gets  *)
(* what is in it: each page begins where the last one ended (append,       *)
(* read).                                                                  *)
ShortLedgerReadsBack ==
  incidents = {} =>
    /\ lines # <<>> => Verified
    /\ pages = Entries(Len(pages))

(* A ledger that was only appended to, in turn, verifies in full ("links   *)
(* each entry to the previous entry digest, and verifies sequence",        *)
(* docs/ADMISSION_POLICY.md).                                              *)
AppendedLedgerVerifies ==
  incidents \subseteq {"past_limit"} /\ lines # <<>> => Verified
-----------------------------------------------------------------------------
(* The inductive invariant behind the first two.                           *)

Chains == Seq(Nat \X AuditRecords)
LedgerEntries == [sequence : Nat, record : AuditRecords, previous : Chains]
LedgerLines == [entry : LedgerEntries, readable : BOOLEAN]
Builders == [stage : {"built"}, entry : LedgerEntries]

LedgerTyped ==
  /\ lines \in Seq(LedgerLines)
  /\ terminated \in BOOLEAN
  /\ writer \in [Writers -> {NotAppending} \cup Builders]
  /\ pages \in Seq(LedgerEntries)
  /\ incidents \subseteq {"race", "past_limit", "crash", "line_lost", "tail_lost"}
  /\ ~terminated => lines # <<>>

(* The entry is the one to follow the first n of these lines. *)
Follows(s, entry, n) ==
  /\ entry.sequence = n
  /\ entry.previous = IF n = 0 THEN NoDigest ELSE EntryDigest(s[n].entry)

(* One append after the other, each on all that is there: every entry is   *)
(* in its place, and only the last line may have been torn.                *)
InTurn ==
  /\ \A i \in DOMAIN lines : Follows(lines, lines[i].entry, i - 1)
  /\ \A i \in DOMAIN lines : i < Len(lines) => lines[i].readable
  /\ \A v, w \in Writers : writer[v] # NotAppending /\ writer[w] # NotAppending => v = w
  /\ \A w \in Writers : writer[w] # NotAppending =>
       Follows(lines, writer[w].entry, Len(lines)) /\ \A i \in DOMAIN lines : lines[i].readable

UndisturbedInTurn == incidents \subseteq {"crash"} => InTurn

UntornAllReadable ==
  incidents = {} => terminated /\ \A i \in DOMAIN lines : lines[i].readable

(* Without a loss, what was answered is there or can be seen to be torn.   *)
ThereOrTorn ==
  incidents \cap {"line_lost", "tail_lost"} = {} =>
    \A a \in acknowledged :
      \/ \E i \in DOMAIN lines : EntryDigest(lines[i].entry) = a.entry_digest
      \/ \E i \in DOMAIN lines : ~lines[i].readable

(* A line lost from the middle of a chain leaves the next out of sequence. *)
LossShows ==
  ("line_lost" \in incidents /\ incidents \cap {"race", "past_limit"} = {}) =>
    \E i \in DOMAIN lines : lines[i].entry.sequence # i - 1

(* What was paged is the beginning of what is there.                       *)
PagesAreRead ==
  incidents = {} => /\ Len(pages) <= Len(lines)
                    /\ \A i \in DOMAIN pages : pages[i] = lines[i].entry

LedgerInv ==
  /\ LedgerTyped /\ UndisturbedInTurn /\ UntornAllReadable
  /\ ThereOrTorn /\ LossShows /\ PagesAreRead
=============================================================================
