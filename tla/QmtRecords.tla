------------------------------ MODULE QmtRecords ------------------------------
(***************************************************************************)
(* A record of the broker on its way: the exporter normalises it field by  *)
(* field and writes it, the reader checks it against the protocol, and the *)
(* snapshot it makes can be written and read again.                        *)
(*                                                                         *)
(* A section has records of one field.  What matters about a field is its  *)
(* kind: the conversion the exporter applies and the check of the reader.  *)
(* Two attributes of a broker's object may hold it.  Values are classes of *)
(* Python values; a payload has a size.                                    *)
(***************************************************************************)
EXTENDS Naturals, Sequences, FiniteSets, TLC

CONSTANTS
    Values,       \* the classes of values the broker has
    MaxRaw,       \* bound on the broker's records
    MaxRecords,   \* MAX_RECORDS_PER_SECTION and MAX_POSITIONS
    MaxBytes,     \* MAX_SNAPSHOT_BYTES and MAX_EXISTING_SNAPSHOT_BYTES
    MaxSequence   \* bound on the snapshots

AllValues == {"none", "true", "zero", "minus", "one", "whole", "fraction", "minus fraction", "infinite",
              "huge", "blank", "text", "long", "compact date", "dashed date", "other date", "date number"}

RecordsAssumption ==
    /\ Values \subseteq AllValues
    /\ MaxRaw \in Nat /\ MaxRecords \in Nat /\ MaxBytes \in Nat /\ MaxSequence \in Nat

Kinds == {"flag", "label", "date", "quantity", "code", "price", "amount"}
Aliases == {"first", "second"}

VARIABLES
    kind,       \* the kind of the section's field
    raw,        \* the broker's records: the value of each alias, "absent" if it has none
    sequence,   \* G.sequence
    file,       \* the completed snapshot, or <<>>
    read,       \* what the reader makes of it: a snapshot or the reason it refuses
    reread      \* the same for what the snapshot writes

vars == <<kind, raw, sequence, file, read, reread>>

-----------------------------------------------------------------------------
(***************************************************************************)
(* The exporter's conversions.                                             *)
(***************************************************************************)
Numbers == {"zero", "minus", "one", "whole", "fraction", "minus fraction", "huge", "date number"}

\* _bounded_string: numbers are written out, long texts cut.
BoundedString(v) ==
    IF v \in {"none", "true", "infinite", "blank"} THEN "none"
    ELSE IF v = "date number" THEN "compact date"
    ELSE IF v \in Numbers THEN "text" ELSE IF v = "long" THEN "cut" ELSE v

\* _finite_number.
FiniteNumber(v) == IF v \in Numbers THEN v ELSE "none"

\* _integer: a fraction is none.
Integer(v) ==
    IF v \notin Numbers \ {"fraction", "minus fraction"} THEN "none" ELSE IF v = "whole" THEN "one" ELSE v

Boolean(v) == IF v \in {"true", "one", "whole"} THEN "true" ELSE IF v = "zero" THEN "false" ELSE "none"

Converted(k, v) ==
    IF v = "absent" THEN "none"
    ELSE IF k = "flag" THEN Boolean(v)
    ELSE IF k \in {"label", "date"} THEN BoundedString(v)
    ELSE IF k \in {"quantity", "code"} THEN Integer(v) ELSE FiniteNumber(v)

\* _read_candidate: the first alias that has a value, else the first there is.
Taken(object) ==
    LET having(P(_)) == {a \in Aliases : P(object[a])}
        valued == having(LAMBDA v : v \notin {"absent", "none"})
        present == having(LAMBDA v : v # "absent")
        from == IF valued # {} THEN valued ELSE IF present # {} THEN present ELSE Aliases
    IN IF "first" \in from THEN "first" ELSE "second"

Objects == [Aliases -> Values \cup {"absent"}]

\* The provenance of the field: the alias taken of each record that has one.
Sources(objects) ==
    {Taken(objects[i]) : i \in {j \in DOMAIN objects : \E a \in Aliases : objects[j][a] # "absent"}}

\* _bounded_records
Bounded(objects) == SubSeq(objects, 1, IF Len(objects) > MaxRecords THEN MaxRecords ELSE Len(objects))

\* A record is as large as its strings.
Bytes(values) ==
    LET Size[n \in 0 .. Len(values)] ==
            IF n = 0 THEN 0 ELSE Size[n - 1] + IF values[n] \in {"cut", "long"} THEN 2 ELSE 1
    IN Size[Len(values)]

\* The payload of a section that was queried, or whose query raised.
Payload(k, objects, ok, n) ==
    LET used == IF ok THEN Bounded(objects) ELSE <<>>
        values == [i \in DOMAIN used |-> Converted(k, used[i][Taken(used[i])])]
    IN [sequence |-> n, kind |-> k, ok |-> ok, failures |-> IF ok THEN 0 ELSE 1,
        values |-> values, sources |-> Sources(used), bytes |-> Bytes(values)]

-----------------------------------------------------------------------------
(***************************************************************************)
(* The reader's checks.                                                    *)
(***************************************************************************)
Negative == {"minus", "minus fraction"}

\* Why the reader refuses a value of this kind, or "".
Refused(k, v) ==
    IF v = "none" THEN ""
    ELSE IF k \in {"label", "date"} /\ v \notin {"text", "cut", "compact date", "dashed date", "other date"} THEN "string"
    ELSE IF k = "date" /\ v \notin {"compact date", "dashed date"} THEN "date"
    ELSE IF k \in {"quantity", "code"} /\ v \notin Numbers \ {"whole", "fraction", "minus fraction"} THEN "integer"
    ELSE IF k \in {"quantity", "price"} /\ v \in Negative THEN "negative"
    ELSE IF k \in {"price", "amount"} /\ v \in {"infinite", "huge"} THEN "finite"
    ELSE IF k \in {"price", "amount"} /\ v \notin Numbers THEN "number"
    ELSE IF k = "flag" /\ v \notin {"true", "false"} THEN "flag" ELSE ""

\* Every number becomes a float.
Float(k, v) == IF k \in {"price", "amount"} /\ v = "one" THEN "whole" ELSE v

\* snapshot_from_mapping: the snapshot, or the reason of the first refusal.
Snapshot(payload) ==
    LET reasons == {Refused(payload.kind, payload.values[i]) : i \in DOMAIN payload.values} \ {""}
        reason == IF payload.bytes > MaxBytes THEN "size"
                  ELSE IF (payload.failures = 0) # payload.ok THEN "failures"
                  ELSE IF ~payload.ok /\ payload.values # <<>> THEN "records of a failed query"
                  ELSE IF Len(payload.values) > MaxRecords THEN "records"
                  ELSE IF reasons # {} THEN CHOOSE r \in reasons : TRUE ELSE ""
    IN IF reason # "" THEN [refused |-> reason]
       ELSE [refused |-> "", payload |-> [payload EXCEPT !.values =
                [i \in DOMAIN payload.values |-> Float(payload.kind, payload.values[i])]]]

\* snapshot_to_mapping
Mapping(snapshot) == snapshot.payload

-----------------------------------------------------------------------------
Init ==
    /\ kind \in Kinds
    /\ raw \in UNION {[1 .. n -> Objects] : n \in 0 .. MaxRaw}
    /\ sequence = 0
    /\ file = <<>>
    /\ read = <<>>
    /\ reread = <<>>

\* handlebar: the query answers or raises, the snapshot replaces the last one.
Export ==
    /\ sequence < MaxSequence
    /\ \E ok \in BOOLEAN : file' = Payload(kind, raw, ok, sequence + 1)
    /\ sequence' = sequence + 1
    /\ read' = <<>> /\ reread' = <<>>
    /\ UNCHANGED <<kind, raw>>

\* Mutant: the number of the file is not looked at.
LastSequenceZero(payload) == 0

\* _load_last_sequence of a file of this exporter: 0 stands for its exception.
LoadLastSequence(payload) == IF payload.bytes > MaxBytes THEN 0 ELSE payload.sequence

\* The strategy is started again.  An exception keeps it from exporting.
Restart ==
    /\ file # <<>>
    /\ sequence' = LoadLastSequence(file)
    /\ file' = file
    /\ UNCHANGED <<kind, raw, read, reread>>

Read ==
    /\ file # <<>> /\ read = <<>>
    /\ read' = Snapshot(file)
    /\ UNCHANGED <<kind, raw, sequence, file, reread>>

Reread ==
    /\ read # <<>> /\ reread = <<>>
    /\ read.refused = ""
    /\ reread' = Snapshot(Mapping(read))
    /\ UNCHANGED <<kind, raw, sequence, file, read>>

Next == Export \/ Restart \/ Read \/ Reread
Spec == Init /\ [][Next]_vars

-----------------------------------------------------------------------------
Reasons == {"", "negative", "date", "finite", "size"}

TypeOK ==
    /\ kind \in Kinds
    /\ sequence \in 0 .. MaxSequence
    /\ file # <<>> => /\ file.sequence \in 1 .. MaxSequence
                      /\ Len(file.values) <= MaxRecords
                      /\ file.sources \subseteq Aliases

\* What the exporter writes is in the protocol of the reader, but for the
\* values the broker itself has wrong: a negative quantity or price, a number
\* beyond a float, a date in another format, and more bytes than both allow.
RefusedOnlyFor == read # <<>> => read.refused \in Reasons

\* Every value that was exported names the alias it was taken from, however
\* many records share the provenance of the section.
SourcesNamed ==
    file # <<>> /\ file.ok =>
        \A i \in DOMAIN file.values : file.values[i] # "none" =>
            \E a \in file.sources : file.values[i] = Converted(kind, raw[i][a])

\* The first attribute that has a value decides, and no other hides it.
ValueIsKept ==
    file # <<>> /\ file.ok =>
        \A i \in DOMAIN file.values :
            LET a == IF raw[i]["first"] \in {"absent", "none"} THEN "second" ELSE "first"
            IN file.values[i] = Converted(kind, raw[i][a])

\* Writing a snapshot and reading it again gives the same snapshot.
RoundTrip == reread # <<>> => reread = read

===============================================================================
