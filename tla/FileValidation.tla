---------------------------- MODULE FileValidation ----------------------------
(***************************************************************************)
(* The checks of one buffer before ClamAV sees it: no executable, no       *)
(* suspicious archive, and the format its name and its type declare.       *)
(*                                                                         *)
(* A buffer is its length, the format its first bytes are those of, and,   *)
(* for an archive, where signatures of a ZIP's structures stand in it and  *)
(* what the fields behind them say.  The second half of the module builds  *)
(* the buffer of a given archive, to compare the walk over the bytes with  *)
(* what the archive lists.                                                 *)
(***************************************************************************)
EXTENDS Integers, Sequences, FiniteSetsExt

CONSTANTS
    BlockedExts, \* blockedExtensions
    MaxNames,    \* entries of an archive: 10000
    MaxExpanded, \* bytes it may expand to: 250 MB
    MaxRatio,    \* ... for each byte of the archive: 100
    MaxComment   \* the comment of an archive: 65535

ASSUME LimitsOK == {MaxNames, MaxExpanded, MaxRatio, MaxComment} \subseteq Nat

EndLength  == 22 \* of an end-of-central-directory record without its comment
HeadLength == 46 \* of a central directory header without name and extras

Formats == <<"pdf", "zip", "ole", "png", "jpeg", "webp">>

-----------------------------------------------------------------------------
(* checkZipBomb.                                                            *)

\* findEocdOffset: searched backwards, the first record whose comment ends
\* where the buffer does, or else the first that looks like one.
EocdOffset(b) ==
    LET found == {o \in DOMAIN b.ends : o >= b.len - MaxComment - EndLength}
        exact == {o \in found : o + EndLength + b.ends[o].comment = b.len}
    IN CASE exact # {}                -> Max(exact)
         [] exact = {} /\ found # {}  -> Max(found)
         [] found = {}                -> -1

BlockedName(entry) == entry.ext \in BlockedExts

\* Mutation: an entry is looked up by the length of its name only.
VisitShort(b, dir, s) ==
    IF s.ok /\ s.at \in DOMAIN b.heads
      THEN [at |-> s.at + HeadLength + b.heads[s.at].name,
            total |-> s.total + b.heads[s.at].size, ok |-> ~BlockedName(b.heads[s.at])]
      ELSE [s EXCEPT !.ok = FALSE]

\* One round of the loop, at offset s.at of the directory dir.
Visit(b, dir, s) ==
    LET head == b.heads[s.at]
        fits == s.at + HeadLength <= dir.start + dir.size /\ s.at + HeadLength <= b.len
    IN  IF s.ok /\ fits /\ s.at \in DOMAIN b.heads
          THEN [at    |-> s.at + HeadLength + head.name + head.rest,
                total |-> s.total + head.size,
                ok    |-> ~(s.at + HeadLength + head.name <= b.len /\ BlockedName(head))]
          ELSE [s EXCEPT !.ok = FALSE]

\* What the loop holds before its first round and after each.
Rounds(b, dir) ==
    LET after[i \in 0..dir.names] ==
          IF i = 0 THEN [at |-> dir.start, total |-> 0, ok |-> TRUE]
                   ELSE Visit(b, dir, after[i - 1])
    IN  after

Walk(b, dir) == Rounds(b, dir)[dir.names]

\* A buffer that does not begin like an archive is not looked at.
CheckZipBomb(b) ==
    b.len >= EndLength /\ b.magic = "zip" =>
      LET end == EocdOffset(b) IN
      /\ end # -1
      /\ LET dir == b.ends[end]  walk == Walk(b, dir) IN
           /\ dir.names <= MaxNames /\ dir.start + dir.size <= b.len
           /\ walk.ok
           /\ walk.total <= MaxExpanded /\ walk.total <= MaxRatio * b.len

-----------------------------------------------------------------------------
(* validateDocumentMagicBytes.                                              *)

\* hasExecutableHeader: a program, whatever it is called.
Executable(f) == f.magic = "executable"

Declared(f) == {i \in DOMAIN Formats : Formats[i] \in {f.ext, f.mime}}

\* Of the formats a name and a type declare the code asks for the first in
\* its own order.
Valid(f) ==
    /\ ~Executable(f)
    /\ CheckZipBomb(f)
    /\ Declared(f) # {} => f.magic = Formats[Min(Declared(f))]

-----------------------------------------------------------------------------
(* Archives as they are packed: entries [ext, size, name, rest], written    *)
(* behind `data` bytes of contents, a comment that may hold the bytes of    *)
(* another end record, and the bytes missing at the end (cut).              *)

\* The sums of the first 0, 1, 2, ... of some numbers.
Sums(numbers) ==
    LET sum[i \in 0..Len(numbers)] == IF i = 0 THEN 0 ELSE sum[i - 1] + numbers[i]
    IN  sum

Lengths(a) == [i \in DOMAIN a.entries |-> HeadLength + a.entries[i].name + a.entries[i].rest]
Sizes(a)   == [i \in DOMAIN a.entries |-> a.entries[i].size]

Offset(a, i) == a.data + Sums(Lengths(a))[i - 1]
DirEnd(a) == a.data + Sums(Lengths(a))[Len(a.entries)]
Packed(a) == DirEnd(a) + EndLength + a.comment - a.cut

EndRecord(a) == [names |-> Len(a.entries), start |-> a.data,
                 size |-> DirEnd(a) - a.data, comment |-> a.comment]
Decoy == [names |-> 0, start |-> 0, size |-> 0, comment |-> 0]

\* The offsets a < b of two records of which only what is whole is there.
Ends(a) ==
    LET own   == DirEnd(a)
        other == DirEnd(a) + EndLength
        there == {own} \cup (IF a.decoy THEN {other} ELSE {})
    IN  [o \in {x \in there : x + EndLength <= Packed(a)} |->
            IF o = own THEN EndRecord(a) ELSE Decoy]

Buffer(a) ==
    [len |-> Packed(a), magic |-> "zip", ends |-> Ends(a),
     heads |-> [o \in {Offset(a, i) : i \in DOMAIN a.entries} |->
                  a.entries[CHOOSE i \in DOMAIN a.entries : Offset(a, i) = o]]]

\* What may be packed.  An archive cut shorter than an end record is not looked
\* at, and of two whole end records with no byte behind the last, or none that
\* ends where the archive does, the format does not say which one counts.
Packable(a) ==
    /\ a.entries \in Seq([ext : STRING, size : Nat, name : Nat, rest : Nat])
    /\ {a.data, a.comment, a.cut} \subseteq Nat /\ a.decoy \in BOOLEAN
    /\ a.comment <= MaxComment /\ EndLength <= Packed(a)
    /\ a.decoy => a.cut = 0 /\ a.comment # EndLength

\* What the check is to find out, from the listing and what is missing.
Harmless(a) ==
    LET total == Sums(Sizes(a))[Len(a.entries)] IN
    /\ Len(a.entries) <= MaxNames
    /\ \A i \in DOMAIN a.entries : ~BlockedName(a.entries[i])
    /\ total <= MaxExpanded /\ total <= MaxRatio * Packed(a)
    /\ a.cut <= a.comment
=============================================================================
