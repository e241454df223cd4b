---------------------------- MODULE MCDiscovery -----------------------------
(* Two symbols of the universe and one from outside, each of which may be   *)
(* any of a dozen kinds of stock; the list has room for one or two.         *)
EXTENDS Discovery

Quiet == [bars |-> "full", volume |-> 10, zscore |-> 5, return |-> 0, above20 |-> TRUE,
          above50 |-> TRUE, above200 |-> TRUE, below_high |-> 10, sector |-> "tech",
          surprise |-> 0, beats |-> 0, keyword |-> FALSE, headlines |-> 0, buyers |-> 0,
          net_buying |-> FALSE, filing |-> FALSE, off_high |-> 10, short |-> 0,
          finviz |-> FALSE, theme |-> 0, price |-> 100, adv |-> 50]

MCFacts ==
    {Quiet,
     [Quiet EXCEPT !.volume = 30, !.zscore = 26],                    \* a mover
     [Quiet EXCEPT !.return = 12, !.sector = "energy"],              \* a leader of its sector
     [Quiet EXCEPT !.theme = 100],                                   \* thematic
     [Quiet EXCEPT !.buyers = 3, !.net_buying = TRUE],               \* bought by insiders
     [Quiet EXCEPT !.filing = TRUE],                                 \* filed an 8-K
     [Quiet EXCEPT !.filing = TRUE, !.volume = 20],                  \* the same, livelier
     [Quiet EXCEPT !.buyers = 4, !.net_buying = TRUE, !.price = 3],  \* a penny stock
     [Quiet EXCEPT !.surprise = 5, !.beats = 2, !.adv = 2],          \* thin
     [Quiet EXCEPT !.bars = "none", !.finviz = TRUE, !.price = 3],   \* only on the screen
     [Quiet EXCEPT !.off_high = 45, !.above20 = FALSE, !.short = 20],\* pulled back
     [Quiet EXCEPT !.bars = "some", !.keyword = TRUE, !.headlines = 5]}

MCFailing == {"series", "volume_and_moves", "insider_clusters", "fresh_filings", "finviz_screen"}

MCAlphabet == <<"a", "b", "x">>
=============================================================================
