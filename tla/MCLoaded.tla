------------------------------ MODULE MCLoaded ------------------------------
(* Binaries for Loaded.tla with groups of 2 bits, so that sizes of 4   *)
(* and more take two bytes: an optional section of each kind in the order  *)
(* of their ids, a memory section at most once, sizes padded or not, and   *)
(* every cut.                                                              *)
EXTENDS Loaded

Plain(id, payload) == {[id |-> id, sizeLen |-> n, payload |-> payload, limits |-> <<>>] : n \in 2 .. 3}

(* Limits as a payload: flags, minimum, and the maximum if there is one.   *)
LimitsOf(min, maxes) == [minimum |-> min, maximum |-> maxes]
EncodeLimits(l) ==
  IF l.maximum = None THEN <<0>> \o Encode(l.minimum, 2)
  ELSE <<1>> \o Encode(l.minimum, 2) \o Encode(CHOOSE x \in l.maximum : TRUE, 3)

(* Custom sections that are empty, or whose payload is a memory section.   *)
Custom == Plain(0, <<>>) \union Plain(0, <<5, 3, 1, 0, 1>>)
Import == Plain(2, <<1, 5, 3, 1>>)

Memory ==
  {[id |-> MemoryId, sizeLen |-> 2, payload |-> <<0>>, limits |-> <<>>]} \union
  {[id |-> MemoryId, sizeLen |-> n, payload |-> <<1>> \o EncodeLimits(l), limits |-> <<l>>] :
     n \in 2 .. 3,
     l \in {LimitsOf(a, b) : a \in {0, 1, 5}, b \in {None, Some(0), Some(9)}}}

Upto(S) == {<<>>} \union {<<s>> : s \in S}

Sections == {a \o b \o c \o d : a \in Upto(Custom), b \in Upto(Import), c \in Upto(Memory),
                                d \in Upto(Plain(0, <<>>))}

(* Any four bytes, at the end of a file: every number of up to four groups *)
(* is a suffix of one.                                                     *)
Anything ==
  {[id |-> 0, sizeLen |-> 2, payload |-> p, limits |-> <<>>] : p \in [1 .. 4 -> Byte]}

Scanned(sections, cut) == [magic |-> TRUE, sections |-> sections, cut |-> cut, use |-> {}]

(* Files that are only scanned: the loader refuses most of them.           *)
ScanFiles ==
  {Scanned(s, Len(EncodeAll(s)) - back) : s \in Sections \ {<<>>}, back \in {0, 1, 3}}
  \union {Scanned(<<s>>, 7) : s \in Anything}
  \union {[magic |-> FALSE, sections |-> <<>>, cut |-> 0, use |-> {}]}

(* Files that are used, with a memory of their own, an imported one, or    *)
(* none, behind a custom section, under the names m and n.                 *)
As(kind, index) == {[kind |-> kind, index |-> index]}

Names(m, n) == [name \in Name |-> CASE name = "m" -> m [] name = "n" -> n [] OTHER -> {}]

Decl(kind, mutable) == [kind |-> kind, mutable |-> mutable]

MemorySectionOf(l) ==
  [id |-> MemoryId, sizeLen |-> 2, payload |-> <<1>> \o EncodeLimits(l), limits |-> <<l>>]

UsedFile(sections, use) ==
  [magic |-> TRUE, sections |-> sections, cut |-> Len(EncodeAll(sections)), use |-> {use}]

Before == Upto(Plain(0, <<5, 3, 1, 0, 1>>))

MemoryFiles ==
  {UsedFile(s \o <<MemorySectionOf(l)>>,
     [exports |-> Names(As("memory", 0), As("func", 0)), globals |-> <<>>,
      import |-> {}, grows |-> g]) :
     s \in Before, g \in BOOLEAN,
     l \in {LimitsOf(0, None), LimitsOf(1, Some(3)), LimitsOf(2, None), LimitsOf(1, Some(1))}}

(* The memory is imported and exported again.                              *)
ImportedFiles ==
  {UsedFile(s, [exports |-> Names(As("memory", 0), As("func", 0)), globals |-> <<>>,
                import |-> i, grows |-> TRUE]) :
     s \in Before \ {<<>>}, i \in {Some(LimitsOf(1, Some(2)))}}

GlobalFiles ==
  {UsedFile(<<>>, [exports |-> Names(As("global", 1), As("global", 3)),
                   globals |-> <<Decl(a, TRUE), Decl(b, TRUE), Decl(c, FALSE)>>,
                   import |-> {}, grows |-> FALSE]) :
     a \in {"i32", "i64", "f32"}, b \in Kind, c \in {"i64", "f64", "i32", "ref"}}

MCFiles == ScanFiles \union MemoryFiles \union ImportedFiles \union GlobalFiles

=============================================================================
