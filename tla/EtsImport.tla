------------------------------- MODULE EtsImport -------------------------------
(***************************************************************************)
(* What an ETS export says, and the points that are made of it.            *)
(*                                                                         *)
(* A cell is what stands where an address is expected: three levels, a     *)
(* number, or something else.  The types of a group address are the ones   *)
(* listed for it, each <<main, sub>>, <<main>> or <<>> for a word.  A      *)
(* column of a table is the set of words its heading contains.  A document *)
(* is the sequence of its elements, none if it is not XML.  An archive is  *)
(* the sequence of its members.                                            *)
(*                                                                         *)
(* Sources: adapters/knx/ets_import.py, adapters/knx/discovery.py,         *)
(* adapters/http/routers/discovery.py, application/discovery_service.py.   *)
(***************************************************************************)
EXTENDS KnxCodec, Positions, SequencesExt

NoAddress == <<>>
NoName == "no name"
Blank == [form |-> "blank"]

(* _coerce_ga: levels are taken as they are, beyond the range too. *)
CoerceGa(cell) ==
  CASE cell.form = "levels" -> cell.ga
    [] cell.form = "number" -> RawToGa(cell.n)
    [] OTHER -> NoAddress

(* normalize_dpt: the first type that is listed. *)
NormalizeDpt(types) == IF types = <<>> THEN <<>> ELSE types[1]

Entry(name, ga, dpt) == [name |-> name, ga |-> ga, dpt |-> dpt]

HasAddress(entry) == entry.ga # NoAddress

-----------------------------------------------------------------------------
(* parse_ets_csv: the first column whose heading has one of the words.     *)
Find(header, words) ==
  SelectInSeq(header, LAMBDA column : column \cap words # {})

(* A row has the three kinds of values in each of its columns. *)
CellOf(row, column) ==
  IF column \in DOMAIN row THEN row[column] ELSE [address |-> Blank, name |-> NoName, types |-> <<>>]

(* The address of a row: its own column, or the three levels in theirs. *)
RowAddress(header, row) ==
  LET direct == Find(header, {"address"})
      own == CoerceGa(CellOf(row, direct).address)
      levels == [i \in 1..3 |-> CellOf(row, Find(header, {<<"main", "middle", "sub">>[i]})).address]
  IN  IF direct # 0 /\ own # NoAddress THEN own
      ELSE IF \A i \in 1..3 : levels[i].form = "number"
      THEN [i \in 1..3 |-> levels[i].n]
      ELSE NoAddress

RowEntry(header, row) ==
  Entry(CellOf(row, Find(header, {"name"})).name,
        RowAddress(header, row),
        NormalizeDpt(CellOf(row, Find(header, {"datapoint", "dpt", "type"})).types))

(* Entries without an address are skipped. *)
Addressed(entries) == Kept(entries, {i \in DOMAIN entries : HasAddress(entries[i])})

ParseCsv(header, rows) == Addressed([i \in DOMAIN rows |-> RowEntry(header, rows[i])])

(* parse_ets_xml: the elements that are group addresses. *)
ParseXml(document) ==
  LET groups == Kept(document, {i \in DOMAIN document : document[i].tag = "GroupAddress"})
  IN  Addressed([i \in DOMAIN groups |->
                  Entry(groups[i].name, CoerceGa(groups[i].address),
                        NormalizeDpt(groups[i].types))])

-----------------------------------------------------------------------------
(* parse_knxproj.  A member of the archive is a document of its own or an  *)
(* inner archive of documents, in the clear, encrypted or damaged.  Only   *)
(* an inner archive is decrypted, with the right password.                 *)
Opens(member, password) ==
  \/ member.lock = "none"
  \/ member.kind = "zip" /\ member.lock = "password" /\ password = "right"

(* The entries of the documents that can be read, as they come.            *)
Readable(members, password) ==
  FlattenSeq([i \in DOMAIN members |->
    IF Opens(members[i], password)
    THEN FlattenSeq([j \in DOMAIN members[i].documents |-> ParseXml(members[i].documents[j])])
    ELSE <<>>])

(* An address seen before is skipped.  Mutant: it is not.                  *)
DistinctAll(entries) == entries

Distinct(entries) ==
  Kept(entries, {i \in DOMAIN entries : \A j \in 1..(i - 1) : entries[j].ga # entries[i].ga})

Outcome(error, entries) == [error |-> error, entries |-> entries]

(* The errors are raised only when nothing at all was found.  A locked     *)
(* inner archive has a document.                                           *)
ParseKnxproj(members, password) ==
  LET results == Distinct(Readable(members, password))
      Locked(kind) == \E i \in DOMAIN members :
                        members[i].kind = kind /\ members[i].lock = "password"
                        /\ ~Opens(members[i], password)
  IN  IF results # <<>> THEN Outcome("none", results)
      ELSE IF Locked("zip") /\ password = "wrong" THEN Outcome("wrong password", <<>>)
      ELSE IF Locked("zip") \/ Locked("document") THEN Outcome("password required", <<>>)
      ELSE Outcome("none", <<>>)

(* parse_ets_file *)
ParseFile(file) ==
  CASE file.extension = "csv" -> Outcome("none", ParseCsv(file.header, file.rows))
    [] file.extension = "xml" -> Outcome("none", ParseXml(file.document))
    [] file.extension = "knxproj" -> ParseKnxproj(file.members, file.password)
    [] OTHER -> Outcome("unsupported", <<>>)

-----------------------------------------------------------------------------
Point(kind, instance, name, ga, dpt) ==
  [kind |-> kind, instance |-> instance, name |-> name, ga |-> ga, dpt |-> dpt]

NameOf(entry) == IF entry.name = NoName THEN entry.ga ELSE entry.name

(* import_ets: a binary point for the types of main number 1. *)
ImportedPoints(entries) ==
  [i \in DOMAIN entries |->
    Point(IF DptMain(entries[i].dpt) = 1 THEN "binary" ELSE "analog",
          i, NameOf(entries[i]), entries[i].ga, entries[i].dpt)]

(* KnxDiscovery._discover_ets_file: the object type is "1" for every type  *)
(* whose main number begins with that digit.                               *)
BeginsWithOne(dpt) == DptMain(dpt) \in {1} \cup 10..19 \cup 100..199

DiscoveredKnx(entries) ==
  [i \in DOMAIN entries |->
    [type |-> IF BeginsWithOne(entries[i].dpt) THEN "1" ELSE "dpt",
     instance |-> 0, name |-> NameOf(entries[i]), ga |-> entries[i].ga, dpt |-> entries[i].dpt]]

(* _point_type: of a BACnet object, its own type. *)
PointType(type) ==
  CASE type \in {"1", "binary"} -> "binary"
    [] type \in {"dpt", "unknown"} -> "analog"
    [] OTHER -> type

(* _materialize: an instance of 0 counts as none.  Mutant: it is kept.     *)
MaterializedKeeping(objects) ==
  [i \in DOMAIN objects |->
    Point(PointType(objects[i].type), objects[i].instance, objects[i].name, objects[i].ga, objects[i].dpt)]

Materialized(objects) ==
  [i \in DOMAIN objects |->
    Point(PointType(objects[i].type),
          IF objects[i].instance = 0 THEN i ELSE objects[i].instance,
          objects[i].name, objects[i].ga, objects[i].dpt)]

-----------------------------------------------------------------------------
(* A project has one point for every group address that can be read, the   *)
(* one that comes first; it is refused only when something is locked and   *)
(* nothing can be read.                                                    *)
ProjectAsDescribed(members, password) ==
  LET all == Readable(members, password)
      outcome == ParseKnxproj(members, password)
      found == outcome.entries
      Addresses(seq) == {seq[i].ga : i \in DOMAIN seq}
  IN  /\ (outcome.error = "none") <=>
           \/ all # <<>>
           \/ \A i \in DOMAIN members : members[i].lock = "password" => Opens(members[i], password)
      /\ Addresses(found) = Addresses(all)
      /\ \A i, j \in DOMAIN found : i # j => found[i].ga # found[j].ga
      /\ \A i \in DOMAIN found :
           \E j \in DOMAIN all : /\ found[i] = all[j]
                                 /\ \A k \in 1..(j - 1) : all[k].ga # found[i].ga

(* A table is read as it was written, whatever the order of its columns    *)
(* and whether the address has one column or three.                        *)
Table(entries, header) ==
  LET LevelIn(ga, column) ==
        CASE "main" \in column -> [form |-> "number", n |-> ga[1]]
          [] "middle" \in column -> [form |-> "number", n |-> ga[2]]
          [] "sub" \in column -> [form |-> "number", n |-> ga[3]]
          [] "address" \in column -> [form |-> "levels", ga |-> ga]
          [] OTHER -> Blank
      Written(e, column) ==
        [address |-> LevelIn(e.ga, column),
         name |-> IF "name" \in column THEN e.name ELSE "another text",
         types |-> IF "datapoint" \in column THEN <<e.dpt>> ELSE <<<<>>>>]
  IN  [i \in DOMAIN entries |-> [c \in DOMAIN header |-> Written(entries[i], header[c])]]

TableAsWritten(entries, header) == ParseCsv(header, Table(entries, header)) = entries

(* The two ways to import a file make the same points, but for the types   *)
(* with a main number of two or three digits that begins with 1: those are *)
(* analog by the route and binary by the discovery.                        *)
RoutesAgree(entries) ==
  LET route == ImportedPoints(entries)
      wizard == Materialized(DiscoveredKnx(entries))
  IN  /\ DOMAIN route = DOMAIN wizard
      /\ \A i \in DOMAIN route :
           (route[i] = wizard[i]) <=> DptMain(entries[i].dpt) \notin 10..19 \cup 100..199

(* Points are told apart by type and instance.  Those of an import always  *)
(* are; those of a discovered device are as long as none has instance 0.   *)
ToldApart(points) ==
  \A i, j \in DOMAIN points :
    points[i].kind = points[j].kind /\ points[i].instance = points[j].instance => i = j
================================================================================
