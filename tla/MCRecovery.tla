----------------------------- MODULE MCRecovery -----------------------------
(***************************************************************************)
(* Instances of Recovery: a repository of two sessions and three packs,    *)
(* ways its discs can be made and damaged, hands of share cards, and       *)
(* compressed blobs.                                                       *)
(***************************************************************************)
EXTENDS Recovery, ZstdFormat

-----------------------------------------------------------------------------
(* The repository.                                                         *)

File(name, content, inode) ==
    [name |-> name, type |-> "file", content |-> content, inode |-> inode]
Dir(name, subtree) == [name |-> name, type |-> "dir", subtree |-> subtree, inode |-> 0]
Symlink(name, link) == [name |-> name, type |-> "symlink", link |-> link, inode |-> 0]

MCTreeOf ==
    [t \in {"t1", "t2", "t3"} |->
        CASE t = "t1" -> <<File("a", <<"b1", "b2">>, 7), Dir("d", "t2"), Symlink("abs", "abs"),
                           Symlink("in", "in"), Symlink("up", "up"), [name |-> "fifo", type |-> "other", inode |-> 0]>>
          [] t = "t2" -> <<File("h", <<"b1", "b2">>, 7), File("e", <<"b3">>, 0)>>
          [] t = "t3" -> <<Dir("d", "t2"), File("a", <<"b1", "b4">>, 9)>>]

PackIn == [b \in {"t1", "b1"} |-> 1] @@ [b \in {"t2", "b2", "b3"} |-> 2] @@ [b \in {"t3", "b4"} |-> 3]

Session1 == [b \in {"t1", "b1", "t2", "b2", "b3"} |-> PackIn[b]]

\* b2 was in another pack before; the index that says so is superseded.
MCIndexOf == <<
    <<[name |-> "i2", supersedes |-> {"i3"}, packs |-> Session1],
      [name |-> "i3", supersedes |-> {}, packs |-> [b \in {"b2"} |-> 1]]>>,
    <<[name |-> "i2", supersedes |-> {"i3"}, packs |-> Session1],
      [name |-> "i3", supersedes |-> {}, packs |-> [b \in {"b2"} |-> 1]],
      [name |-> "i4", supersedes |-> {}, packs |-> [b \in {"t3", "b4"} |-> PackIn[b]]]>>>>

MCSnapshotsOf == <<
    <<[id |-> <<5, 1>>, time |-> 1, tree |-> "t1"]>>,
    <<[id |-> <<5, 0>>, time |-> 2, tree |-> "t3"], [id |-> <<5, 1>>, time |-> 1, tree |-> "t1"]>>>>

\* Snapshot arguments: none, one exact, a unique prefix of none, ambiguous.
MCSnapshots == {<<>>, <<5, 1>>, <<5>>}

-----------------------------------------------------------------------------
(* Ways to store the blob b1.                                              *)

RawBlock(lits) == [block |-> "raw", lits |-> lits, seqs |-> <<>>]
RleBlock(lits) == [block |-> "rle", lits |-> lits, seqs |-> <<>>]
Block(kind, format, lits, weights, fse, mode, seqs) ==
    [block |-> "compressed", kind |-> kind, format |-> format, lits |-> lits, weights |-> weights,
     fse |-> fse, mode |-> mode, seqs |-> seqs]

Twenty == [i \in 1..20 |-> i]
Mixed == [i \in 1..24 |-> (i * i) % 3]
Repeats == << <<16, 8, 5>>, <<0, 1, 4>>, <<1, 2, 5>>, <<1, 3, 5>>, <<0, 3, 36>> >>

\* Every kind of block, of literals, of stream layout and of sequence table.
Plan1 == <<RawBlock(<<7, 8, 9, 10>>), RleBlock(<<5, 5, 5>>)>>
Plan2 == <<Block("raw", 3, Twenty, <<>>, <<>>, 0, Repeats)>>
Plan3 == <<Block("raw", 1, Twenty, <<>>, <<>>, 2, << <<16, 8, 5>>, <<0, 1, 4>>, <<1, 2, 5>> >>),
           Block("rle", 3, <<1, 1>>, <<>>, <<>>, 3, << <<1, 8, 5>>, <<0, 1, 4>>, <<1, 2, 4>> >>)>>
Plan4 == <<Block("raw", 0, Twenty, <<>>, <<>>, 1, << <<4, 5, 5>>, <<4, 4, 5>> >>)>>
Plan5 == <<Block("huffman", 1, Mixed, <<1, 2, 0, 1>>, <<>>, 0, << <<3, 4, 5>> >>),
           Block("treeless", 0, Mixed, <<1, 2, 0, 1>>, <<>>, 0, << <<3, 4, 5>> >>)>>
Plan6 == <<Block("huffman", 1, Mixed, <<1, 2, 1, 3, 1, 1, 2, 2, 2>>, <<2, 18, 8, 4>>, 0, <<>>)>>

Header == [single |-> FALSE, fcs |-> 2, checksum |-> TRUE]

\* A blob in a frame, as the reader finds it, with its length in the index or
\* without.
Frames(plans, sizes) ==
    {[stored |-> WriteFrame(plan, Header), length |-> IF sized THEN Len(Content(plan)) ELSE -1,
      plain |-> Content(plan), valid |-> TRUE] : plan \in plans, sized \in sizes}

Plain(bytes) == [stored |-> bytes, length |-> -1, plain |-> bytes, valid |-> TRUE]

Invalid(frame, bytes) == [frame EXCEPT !.stored = bytes, !.valid = FALSE]

\* Compressed in every way; not compressed; incompressible content that begins
\* like a frame; frames with a wrong checksum, cut short, with a dictionary.
Spoilt(f) ==
    IF f.length = -1 THEN {}
    ELSE {Invalid(f, Append(Front(f.stored), (Last(f.stored) + 1) % 256)),
          Invalid(f, SubSeq(f.stored, 1, Len(f.stored) - 8)),
          Invalid(f, [f.stored EXCEPT ![5] = @ + 1])}

MCStored ==
    {Plain(<<1, 2>>), Plain(MAGIC \o <<1, 2>>)}
    \cup UNION {{f} \cup Spoilt(f) : f \in Frames({Plan1, Plan2, Plan3, Plan4, Plan5, Plan6}, BOOLEAN)}

\* Two symbols, the last with a code of one bit.
TwoSymbols == <<Block("huffman", 0, [j \in 1..12 |-> j % 2], <<1, 1>>, <<>>, 0, <<>>)>>

-----------------------------------------------------------------------------
(* The discs.                                                              *)

\* Two volumes in the first session; a pack staged twice; a consolidation.
Layouts == {
    [on |-> <<{1}, {2}, {3}>>, session |-> <<1, 1, 2>>, live |-> <<{1}, {1, 2}, {1, 2, 3}>>],
    [on |-> <<{1, 2}, {2, 3}, {3}>>, session |-> <<1, 2, 2>>, live |-> <<{1}, {1, 2}, {1, 2, 3}>>],
    [on |-> <<{1, 2}, {3}, {1, 2, 3}>>, session |-> <<1, 2, 2>>, live |-> <<{1}, {1, 2}, {3}>>]}

AllGood == [x \in Labels \X Packs |-> "good"]

World(l, state, at, hit, keys, blob) ==
    [on |-> l.on, session |-> l.session, live |-> l.live, state |-> state, at |-> at,
     hit |-> hit, keys |-> keys, pack |-> PackIn, blob |-> blob]

Keys == <<"damaged", "other", "good">>

\* One file of a pack damaged, or two, or one disc away.
Copies(l) == {x \in Labels \X Packs : x[2] \in l.on[x[1]]}

Damaged(l, n) ==
    UNION {{[x \in Labels \X Packs |-> IF x \in hurt THEN how[x] ELSE "good"] :
               how \in [hurt -> {"bad", "eio"}]} : hurt \in {h \in SUBSET Copies(l) : Cardinality(h) = n}}

FirstLayout == CHOOSE l \in Layouts : l.on[2] = {2}

Sound(l) == World(l, AllGood, Labels, {}, Keys, <<>>)

Worlds ==
    {Sound(l) : l \in Layouts}
    \cup UNION {{World(l, s, Labels, DOMAIN PackIn, Keys, <<>>) : s \in Damaged(l, 1)} : l \in Layouts}
    \cup {World(FirstLayout, s, Labels, {"b2", "b3", "b4"}, Keys, <<>>) : s \in Damaged(FirstLayout, 1)}
    \cup UNION {{World(l, s, Labels, DOMAIN PackIn, Keys, <<>>) :
                    s \in {t \in Damaged(l, 2) : "eio" \notin Range(t)}} : l \in Layouts}
    \cup {World(l, AllGood, Labels \ {i}, {}, Keys, <<>>) : l \in Layouts, i \in Labels}
    \cup {World(FirstLayout, AllGood, Labels, {}, <<"damaged">>, <<>>)}

-----------------------------------------------------------------------------
(* The cards.                                                              *)

MCPassword == <<112, 119, 33>>
OtherPassword == <<112>>

\* Two of three, of a password that needs padding; the same split again; one
\* of one, of an empty password.
SplitA == Split(MCPassword, 2, 3, 77, <<>>, <<9, 200, 31, 4, 5>>)
SplitB == Split(MCPassword, 2, 3, 78, <<>>, <<1, 0, 255, 4, 5>>)
SplitC == Split(<<>>, 1, 1, 77, <<>>, <<>>)

Prose == <<-1, 5, -1>>
Card(words) == <<Prose, words>>
Wrapped(words) == <<Prose, SubSeq(words, 1, 6), SubSeq(words, 7, Len(words))>>
Typo(words, i) == [words EXCEPT ![i] = -1]
Misread(words, i) == [words EXCEPT ![i] = (@ + 1) % 1024]
Cut(words, i) == [words EXCEPT ![i] = @ + 1024]

\* The shares of a split, [split, threshold, index, words, secret].
SharesOf(split, threshold, secret, words) ==
    [i \in DOMAIN words |-> [split |-> split, threshold |-> threshold, index |-> i,
                             words |-> words[i], secret |-> secret]]

\* A card written from a share, in one of the ways people write one.
CardOf(share, how) ==
    [from |-> IF how = "no share" THEN [share EXCEPT !.words = <<>>] ELSE share,
     card |-> CASE how = "plain"   -> Card(share.words)
                [] how = "wrapped" -> Wrapped(share.words)
                [] how = "cut"     -> Card(Cut(share.words, 3))
                [] how = "all cut" -> Card([k \in DOMAIN share.words |-> share.words[k] + 1024])
                [] how = "typo"    -> Card(Typo(share.words, 4))
                [] how = "misread" -> Card(Misread(share.words, 3))
                [] how = "no share" -> <<Prose, Prose>>]

Ways == {"plain", "wrapped", "cut", "all cut", "typo", "misread", "no share"}

Hand(written, stdin) ==
    [cards |-> [i \in DOMAIN written |-> written[i].card], from |-> [i \in DOMAIN written |-> written[i].from],
     stdin |-> stdin, readable |-> TRUE]

\* Every pair of cards as they are, two cards of a split in every two ways, one
\* or three cards, cards of two splits, and a file that cannot be read.
HandsOf(a, b, c) ==
    LET Good(share) == CardOf(share, "plain")
        hands == {<<Good(a[i]), Good(a[j])>> : i, j \in 0..2}
                 \cup {<<CardOf(a[1], how), CardOf(a[0], way)>> : how, way \in Ways}
                 \cup {<<Good(a[1])>>, <<Good(c[0])>>, <<Good(b[1]), Good(b[2])>>, <<Good(a[1]), Good(b[0])>>,
                        <<Good(a[1]), Good(a[0]), Good(b[2])>>}
                 \cup {<<Good(a[2]), Good(a[0]), CardOf(a[1], how)>> : how \in Ways}
                 \cup {<<Good(a[1]), [from |-> a[2], card |-> Card(Misread(a[2].words, i))]>> :
                         i \in {1, Len(a[2].words)}}
    IN  {Hand(h, stdin) : h \in hands, stdin \in BOOLEAN}
        \cup {[Hand(<<Good(a[1]), Good(a[0])>>, FALSE) EXCEPT !.readable = FALSE]}

Hands ==
    UNION {HandsOf(a, b, c) : a \in {SharesOf("A", 2, MCPassword, SplitA)},
                              b \in {SharesOf("B", 2, MCPassword, SplitB)},
                              c \in {SharesOf("C", 1, <<>>, SplitC)}}

Case(w, hand, key) == [world |-> w, hand |-> hand, key |-> key]

\* The blob b1 is stored in one of these ways.
StoreCases(stored) ==
    {Case(World(FirstLayout, AllGood, Labels, {}, Keys, [b \in {"b1"} |-> how]), NoCards, MCPassword) :
        how \in stored}

CardCases == {Case(Sound(FirstLayout), hand, Failed) : hand \in Hands}

MCCases ==
    StoreCases(MCStored) \cup
    {Case(w, NoCards, MCPassword) : w \in Worlds}
    \cup {Case(Sound(FirstLayout), NoCards, OtherPassword)}
    \cup CardCases

Script(tool, keep, rustic, snapshot) ==
    [tool |-> tool, keep |-> keep, rustic |-> rustic, snapshot |-> snapshot]
ByHand(interactive, strict, snapshot) ==
    [tool |-> "reader", interactive |-> interactive, strict |-> strict, snapshot |-> snapshot]

Scripts == {"single", "auto", "directory"}

\* Every option where all is sound; with damage, the runs that go on: a work
\* directory that is kept, a reader that asks.
AllRuns ==
    {Script(t, keep, rustic, s) : t \in Scripts, keep, rustic \in BOOLEAN, s \in {<<>>, <<5, 1>>}}
    \cup {ByHand(interactive, strict, s) : interactive, strict \in BOOLEAN, s \in MCSnapshots}
DamageRuns == {Script(t, TRUE, FALSE, <<>>) : t \in Scripts} \cup {ByHand(TRUE, FALSE, <<>>)}

StoreRuns == {Script("directory", FALSE, FALSE, <<>>)}

SoundCases == {Case(Sound(FirstLayout), NoCards, MCPassword)}

HuffmanCases == StoreCases(Frames({TwoSymbols}, {TRUE}))

MCRunsIn(w) == IF w.blob # <<>> THEN StoreRuns ELSE IF w = Sound(FirstLayout) THEN AllRuns ELSE DamageRuns

=============================================================================
