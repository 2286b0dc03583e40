----------------------------- MODULE MCEmerging -----------------------------
EXTENDS Emerging

Funds == 1..4
Held == (1 :> 10)

\* Words: a theme, its two names, another name, and one cue of each judgment.
Theme == 1  NameA == 2  NameB == 3  Other == 4
Cue(k) == 90 + k

Doc(id, d, src, words) == [id |-> id, as_of |-> d, source |-> src, words |-> words]

\* Three sources take the theme up on the first day, one of them repeats it on the second.
Corpus ==
    {Doc(1, 1, "a", {Theme, NameA, Cue(1)}), Doc(2, 1, "b", {Theme, NameB, Cue(2)}),
     Doc(3, 1, "c", {Theme, NameA, Cue(4)}),
     Doc(4, 2, "c", {Theme, NameB}), Doc(5, 2, "c", {Theme, NameA})}

\* A theme of the bundled file, younger and more crowded than the corpus reads it.
Bundled ==
    [key |-> Theme, as_of |-> 0,
     payload |-> [acceleration |-> 70, base_level |-> 30, breadth |-> 4, crowding |-> 80,
                  constituents |-> {NameA, NameB}, wrapper_exists |-> TRUE,
                  broad_adoption |-> TRUE, path_to_profit |-> TRUE,
                  fad_resistant |-> TRUE, lead_chain |-> TRUE]]

\* The fund of the book owns a name of the theme; two candidates re-buy it, one does not.
Holds ==
    (1 :> (NameA :> 30 @@ Other :> 20)) @@ (2 :> (NameA :> 40))
    @@ (3 :> (NameB :> 50)) @@ (4 :> (NameA :> 15 @@ NameB :> 30))

Sheet(fee) == [fee |-> fee, tracking_error |-> 20, top10_weight |-> 50]

\* The third fund doubles on a basket at its dearest; the fourth is launched on day one.
Marks == <<(<<100, 100, 104, 108>>), (<<100, 99, 98, 97>>), (<<100, 120, 160, 200>>),
           (<<0, 50, 51, 52>>)>>

Recorded ==
    [source |-> "fixtures", ends |-> [f \in Funds |-> IF f = 2 THEN 3 ELSE 0],
     inception |-> [f \in Funds |-> IF f = 4 THEN 1 ELSE IF f = 1 THEN Missing ELSE 0],
     quotes |-> [f \in Funds |-> [d \in 0..3 |->
                    LET m == Marks[f][d + 1] IN IF m = 0 THEN <<>> ELSE <<m, m, m>>]],
     exchange |-> Funds, amount |-> [f \in Funds |-> [d \in 0..3 |-> Missing]],
     aum |-> [f \in Funds |-> [d \in 0..3 |-> IF f = 3 /\ d = 1 THEN 300 ELSE 1500 + 300 * f]],
     filings |-> [f \in Funds |-> [d \in 0..3 |->
                    IF d = 0 THEN Holds[f] ELSE IF f = 4 /\ d = 2 THEN (Other :> 90) ELSE <<>>]],
     pes |-> [f \in Funds |-> IF f = 3 THEN [i \in 1..12 |-> i] ELSE <<>>],
     corr |-> [f \in Funds |-> IF f = 2 THEN 40 ELSE Unread],
     sheet |-> [f \in Funds |-> Sheet(30 + 3 * f)],
     bundled |-> {Bundled}, docs |-> Corpus]

\* Nothing bundled, no basket is dear, no end is announced.
Quiet == [Recorded EXCEPT !.bundled = {}, !.pes = [f \in Funds |-> <<>>],
                          !.ends = [f \in Funds |-> 0]]

\* The live sources: three that may disagree, and the tiers of the board.
Live ==
    [Quiet EXCEPT
        !.source = "live",
        !.quotes = [f \in Funds |-> [d \in 0..3 |->
                      LET m == Marks[f][d + 1]
                      IN  IF m = 0 THEN <<>> ELSE IF d = 0 \/ f = 1 THEN <<m>>
                          ELSE IF d = 1 THEN <<m, m + 10>> ELSE <<m + 20, m, m>>]],
        !.amount = [f \in Funds |-> [d \in 0..3 |-> IF f = 2 THEN 0 ELSE 80]],
        !.aum = [f \in Funds |-> [d \in 0..3 |-> IF f = 2 THEN 30 ELSE 1500]]]

RecordedWorlds == {Recorded, Quiet}
LiveWorld == {Live}

Pulls == {{}, {1, 2, 3, 4}, {1, 3, 4}, {1, 2}}
Reads == {[f \in Funds |-> 50], [f \in Funds |-> 25 * f]}
=============================================================================
