---------------------------- MODULE MCListFiles -----------------------------
(***************************************************************************)
(* ListFiles with eight objects.  With MaxSave = 2 a list has up to four   *)
(* entries and a bucket two lists: bucket b1 needs both.  After a dump that *)
(* used 0001/0001 its objects begin in 0001/0002; after one that used       *)
(* 0002/0001 there is room for two of them.                                 *)
(***************************************************************************)
EXTENDS ListFiles

Entry(b, k, i, s, f) == [bucket |-> b, key |-> k, id |-> i, sec |-> s, frac |-> f]

TapeEntries ==
  <<Entry("b1", "k1", "i1", 3, 1), Entry("b2", "k1", "i2", 1, 1), Entry("b1", "k2", "i3", 2, 1),
    Entry("b1", "k1", "i4", 5, 1), Entry("b1", "k1", "i5", 4, 1), Entry("b2", "k2", "i6", 4, 1),
    Entry("b1", "k1", "i7", 5, 2), Entry("b1", "k1", "i8", 4, 1)>>

NoDump   == {{}}
AnyDump  == {{}, {<<"b1", 1, 1>>}, {<<"b1", 1, 1>>, <<"b1", 2, 1>>, <<"b2", 1, 2>>}}
FullDump == {{<<"b1", 1, 1>>, <<"b1", 1, 2>>}}

Request(b, k, i) == [bucket |-> b, key |-> k, id |-> i]

AllRequests ==
  {Request(b, k, i) : b \in {"b1", "b2"}, k \in {"k1", "k2"}, i \in AnyId}
    \cup {Request(e.bucket, e.key, e.id) : e \in {TapeEntries[m] : m \in Objects}}

ASSUME TapeFits == BucketsFit

AnyRequests == AllRequests \cup {Request("b1", "k1", "i3")}
=============================================================================
