------------------------------- MODULE Forex -------------------------------
(***************************************************************************)
(* get_nrb_forex: the exchange rates that the central bank publishes       *)
(* (app/nrb/client.py, app/tools/local/get_nrb_forex.py).  The bank        *)
(* publishes an entry for a day, some or all of its currencies without a   *)
(* quote; the client walks the pages of a period, the tool tells what it   *)
(* found.  Days are numbers, a quote is what was published for a currency. *)
(***************************************************************************)
EXTENDS Integers, FiniteSetsExt, SequencesExt

CONSTANTS
  Days,                  \* the days of the instance
  Currencies,
  Entries,               \* what may be published for a day: currency -> quote or NoQuote
  NoEntry, NoQuote,      \* nothing published; published without a quote
  All,                   \* no currency asked for
  MaxPages,              \* MAX_PAGES
  MaxRangeDays,          \* MAX_RANGE_DAYS
  MaxDaysAllCurrencies,  \* MAX_DAYS_ALL_CURRENCIES
  MaxEntries,            \* MAX_OUTPUT_CHARS, in days that fit
  MaxCorrections         \* bound on what the bank publishes during a call

VARIABLES
  published,   \* the bank: what each day's entry is
  today,       \* the day in Nepal
  fetch,       \* the call under way: its period, its page and the days found
  told,        \* the answer, with the period and the currency it is about
  history      \* of each day, what was published since the call began

vars == <<published, today, fetch, told, history>>

Idle == [at |-> "idle"]
Absent == 0   \* not one of Days
Nothing == [kind |-> "nothing"]

Init ==
  /\ published \in [Days -> Entries \cup {NoEntry}]
  /\ today \in Days
  /\ fetch = Idle
  /\ told = Nothing
  /\ history = [d \in Days |-> {}]

Tell(call, kind, days) ==
  told' = [kind |-> kind, from |-> call.from, to |-> call.to, currency |-> call.currency, days |-> days]

\* No date is today, no second date the first.  A period that is reversed or too
\* long is refused.
Ask(from, to, currency) ==
  LET first == IF from = Absent THEN today ELSE from
      call == [from |-> first, to |-> IF to = Absent THEN first ELSE to, currency |-> currency]
      span == call.to - call.from + 1
  IN
  /\ fetch = Idle /\ told = Nothing
  /\ IF span \notin 1 .. (IF currency = All THEN MaxDaysAllCurrencies ELSE MaxRangeDays)
     THEN Tell(call, "error", {}) /\ UNCHANGED <<fetch, history>>
     ELSE /\ fetch' = call @@ [at |-> "fetch", page |-> 1, byDate |-> {}]
          /\ UNCHANGED told
  /\ history' = [d \in Days |-> {published[d]}]
  /\ UNCHANGED <<published, today>>

\* The bank's answer: its entries in the period, which fit one page, and a number of
\* pages.  Told that there are more, the client asks on, and is given nothing or the
\* same again, until the backstop.
Listed(call) == {d \in call.from .. call.to : published[d] # NoEntry}

LastPage(page, total, days) == days = {} \/ page >= total \/ page >= MaxPages

\* parse_rates_body, fetch_forex_rates: the first entry of a day counts.
Found(byDate, days) ==
  byDate \cup {[day |-> d, rates |-> published[d]] : d \in {d \in days : \A x \in byDate : x.day # d}}

\* A redirect, a bad status, a timeout, a body that is not a page of rates.
FetchFails ==
  /\ fetch # Idle
  /\ Tell(fetch, "error", {})
  /\ fetch' = Idle
  /\ UNCHANGED <<published, today, history>>

Quoted(day) == {c \in Currencies : day.rates[c] # NoQuote}

\* The cut at the budget is not announced.
AnswerSilently(call, byDate) ==
  LET quoted == {x \in byDate : Quoted(x) # {}}
      matching == IF call.currency = All THEN quoted
                  ELSE {x \in quoted : call.currency \in Quoted(x)}
      fitting == {x \in matching : Cardinality({y \in matching : y.day < x.day}) < MaxEntries}
  IN
  CASE byDate = {} -> Tell(call, "unpublished", {})
    [] byDate # {} /\ quoted = {} -> Tell(call, "unquoted", {})
    [] quoted # {} /\ matching = {} -> Tell(call, "no such rate", {})
    [] matching # {} -> Tell(call, "rates", fitting)

\* A day without any quote is passed over before the currency is looked for.
Answer(call, byDate) ==
  LET quoted == {x \in byDate : Quoted(x) # {}}
      matching == IF call.currency = All THEN quoted
                  ELSE {x \in quoted : call.currency \in Quoted(x)}
      fitting == {x \in matching : Cardinality({y \in matching : y.day < x.day}) < MaxEntries}
  IN
  CASE byDate = {} -> Tell(call, "unpublished", {})
    [] byDate # {} /\ quoted = {} -> Tell(call, "unquoted", {})
    [] quoted # {} /\ matching = {} -> Tell(call, "no such rate", {})
    [] matching # {} -> Tell(call, IF fitting = matching THEN "rates" ELSE "truncated", fitting)

FetchPage ==
  /\ fetch # Idle
  /\ \E total \in 1 .. MaxPages + 1, days \in {Listed(fetch)} \cup (IF fetch.page = 1 THEN {} ELSE {{}}) :
       LET byDate == Found(fetch.byDate, days) IN
       IF LastPage(fetch.page, total, days)
       THEN Answer(fetch, byDate) /\ fetch' = Idle
       ELSE fetch' = [fetch EXCEPT !.page = @ + 1, !.byDate = byDate] /\ UNCHANGED told
  /\ UNCHANGED <<published, today, history>>

\* The bank publishes a day's rates, or corrects them, while it is asked.
Publish(d, entry) ==
  /\ fetch # Idle /\ published[d] # entry
  /\ MapThenSumSet(LAMBDA e : Cardinality(history[e]) - 1, Days) < MaxCorrections
  /\ published' = [published EXCEPT ![d] = entry]
  /\ history' = [history EXCEPT ![d] = @ \cup {entry}]
  /\ UNCHANGED <<today, fetch, told>>

Next ==
  \/ \E from, to \in Days \cup {Absent}, currency \in Currencies \cup {All} : Ask(from, to, currency)
  \/ FetchPage \/ FetchFails
  \/ \E d \in Days, entry \in Entries : Publish(d, entry)

Spec == Init /\ [][Next]_vars

-----------------------------------------------------------------------------
(* Properties *)

\* What is told of a period is what the bank published for it: each rate was its
\* rate of that day while it was asked; a day that had one throughout is there,
\* unless the answer says that it is cut; and an answer that there is none, or no
\* entry, is true of every day at some time (get_nrb_forex.py, "a silently halved
\* rate table reads to the model as the complete published set").
RatesAreAsPublished ==
  told # Nothing /\ told.kind # "error" =>
    LET period == told.from .. told.to
        asked == IF told.currency = All THEN Currencies ELSE {told.currency}
        quotes(entry) == IF entry = NoEntry THEN {} ELSE {c \in Currencies : entry[c] # NoQuote}
        shown == {x.day : x \in told.days}
        throughout(ok(_)) == {d \in period : \A entry \in history[d] : ok(entry)}
        ever(ok(_)) == {d \in period : \E entry \in history[d] : ok(entry)}
    IN
    /\ \A x \in told.days : x.rates \in history[x.day] /\ Cardinality({y \in told.days : y.day = x.day}) = 1
    /\ shown \subseteq ever(LAMBDA e : quotes(e) \cap asked # {})
    /\ told.kind = "rates" => throughout(LAMBDA e : quotes(e) \cap asked # {}) \subseteq shown
    /\ told.kind = "truncated" => shown # {} /\ \A d \in throughout(LAMBDA e : quotes(e) \cap asked # {}) \ shown : d > Max(shown)
    /\ told.kind \in {"unpublished", "unquoted", "no such rate"} =>
         throughout(LAMBDA e : quotes(e) \cap asked # {}) = {}
    /\ told.kind = "unpublished" => throughout(LAMBDA e : e # NoEntry) = {}
    /\ told.kind = "unquoted" => ever(LAMBDA e : e # NoEntry) # {}
=============================================================================
