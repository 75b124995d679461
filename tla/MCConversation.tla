--------------------------- MODULE MCConversation ---------------------------
(* Instances for TLC of a conversation: the turns that write it, the        *)
(* history as a client pages through it, and the dates and the exchange     *)
(* rates that its tools tell.  They share no state, so that a behaviour is  *)
(* about one of them.                                                       *)
EXTENDS ChatTurn, TLC

(* Scroll *)
CONSTANTS Sessions, Others, Writers, Limit, MaxClock, MaxMessages
VARIABLES table, clock, writer, scroll, start
history == <<table, clock, writer, scroll, start>>
Pages == INSTANCE Scroll

(* NepaliCalendar *)
CONSTANTS
  Bs, Ad, AnchorAd, FiscalStartMonth, TicksPerDay, Offset, Clocks, Durations, Labels
VARIABLES instant, said
dates == <<instant, said>>
Calendar == INSTANCE NepaliCalendar WITH clock <- instant

(* Forex *)
CONSTANTS
  Days, Currencies, Entries, NoEntry, NoQuote, All, MaxPages, MaxRangeDays,
  MaxDaysAllCurrencies, MaxEntries, MaxCorrections
VARIABLES published, today, fetch, rate, quoted
rates == <<published, today, fetch, rate, quoted>>
Bank == INSTANCE Forex WITH told <- rate, history <- quoted

VARIABLE part   \* what a behaviour is about

\* What a behaviour is not about has one beginning.
MCInit ==
  /\ part \in {"turns", "history", "dates", "rates"}
  /\ Init /\ (part # "turns" => session = "none" /\ reach = {})
  /\ Pages!Init /\ (part # "history" => \A id \in Sessions : table[id].messages = 0)
  /\ Calendar!Init
  /\ Bank!Init /\ (part # "rates" => today = Min(Days) /\ \A d \in Days : published[d] = NoEntry)

MCNext ==
  /\ UNCHANGED part
  /\ \/ part = "turns" /\ Next /\ UNCHANGED <<history, dates, rates>>
     \/ part = "history" /\ Pages!Next /\ UNCHANGED <<vars, dates, rates>>
     \/ part = "dates" /\ Calendar!Next /\ UNCHANGED <<vars, history, rates>>
     \/ part = "rates" /\ Bank!Next /\ UNCHANGED <<vars, history, dates>>

MCSpec == MCInit /\ [][MCNext]_<<vars, history, dates, rates, part>>

\* The properties of the modules Scroll, NepaliCalendar and Forex.
ScrollsAreWhole == Pages!ScrollsAreWhole
DatesAgree == Calendar!DatesAgree
RatesAreAsPublished == Bank!RatesAreAsPublished

-----------------------------------------------------------------------------
(* The turns *)
CONSTANTS t1, t2, d1, none

\* A thread by its turns: a question "q" or "f" (with files), answered at length
\* "qa", "fa", or in short, "qs".
MCThread(kinds, dept) ==
  LET question(k) == [role |-> "user", turn |-> k, files |-> kinds[k] \in {"f", "fa"},
                      cost |-> QuestionCost, dept |-> dept]
      answer(k) == [role |-> "assistant", turn |-> k, files |-> FALSE,
                    cost |-> IF kinds[k] = "qs" THEN 1 ELSE 3, dept |-> dept]
      rowsOf(k) == IF kinds[k] \in {"q", "f"} THEN <<question(k)>> ELSE <<question(k), answer(k)>>
      all == FlattenSeq([k \in DOMAIN kinds |-> rowsOf(k)])
  IN [i \in DOMAIN all |-> [seq |-> i] @@ all[i]]

MCEarlier ==
  {MCThread(kinds, d1) : kinds \in {
     <<"fa">>, <<"f", "qa">>, <<"f", "q", "qa", "q">>, <<"fa", "qa", "q">>,
     <<"qa", "fa", "q">>, <<"qs", "qs", "q">>, <<"q", "f", "qs", "q">>}}
  \cup {MCThread(<<"qa">>, none)}

-----------------------------------------------------------------------------
(* The dates: years of three short months, before and after the turn of a   *)
(* century, and the labels of years that are none beside those that are.    *)

MCBs == (2098 :> <<2, 1, 2>>) @@ (2099 :> <<3, 2, 1>>) @@ (2100 :> <<2, 2, 2>>) @@ (2101 :> <<1, 3, 2>>)
MCAd == [y \in 1 .. 5 |-> IF y = 2 THEN <<3, 2, 3>> ELSE <<3, 1, 2>>]
MCAnchor == [year |-> 1, month |-> 2, day |-> 1]

Added(years, months, ticks, timed) ==
  [years |-> years, months |-> months, ticks |-> ticks, timed |-> timed]
MCDurations ==
  {Added(0, 0, 9, TRUE), Added(0, 0, 8, TRUE), Added(0, 1, 0, FALSE), Added(1, 0, 0, FALSE),
   Added(1, 1, 6, FALSE)}

Label(from, digits, tail) == [start |-> from, digits |-> digits, tail |-> tail]
MCLabels ==
  {Label(2097, 2, 98), Label(2098, 2, 98), Label(2098, 2, 99), Label(2099, 2, 0),
   Label(2099, 4, 2100), Label(2100, 4, 2101), Label(2101, 2, 2)}

-----------------------------------------------------------------------------
(* The rates: of a day nothing, one of two currencies or both are quoted.   *)

CONSTANTS usd, inr
MCEntries == {(usd :> 0) @@ (inr :> 0), (usd :> 1) @@ (inr :> 0), (usd :> 2) @@ (inr :> 3)}

Symmetry == Permutations({t1, t2}) \cup Permutations(Writers)
=============================================================================
