--------------------------- MODULE RecoveryProofs ---------------------------
(***************************************************************************)
(* What holds of the recovery cache for every set of files, engines and    *)
(* workers: it only spares work, and it keeps no text that no engine could *)
(* vouch for.                                                              *)
(***************************************************************************)
EXTENDS Recovery, Integers, SequenceTheorems, WellFoundedInduction, TLAPS

-----------------------------------------------------------------------------
(* The inductive invariant.                                                *)

\* What UntrustedTextIsWithheld asks of one document.
Safe(units) ==
    \A i \in DOMAIN units :
        LET unit == units[i] IN
        /\ unit.route = "legacy_conversion" =>
                /\ \A k \in LineKinds :
                    <<k, "original">> \in unit.text => ~Candidate(k)
                /\ Family(blob) = "pdf" => blob.pages[i].font # "none"
        /\ unit.route = "ocr" => unit.text \subseteq {<<"plain", "read">>}

\* Every unit is on the route that a fresh read under the gate decides.
Routed(units, g) ==
    /\ Len(units) = Len(UnitRoutes(blob, g))
    /\ \A i \in DOMAIN units : units[i].route = UnitRoutes(blob, g)[i].route

\* Whoever has the engines that made a unit could have made it.
Reproducible(units, g) ==
    \A i \in DOMAIN units : \A d \in Deployments :
        d.gate = g /\ Version(d, units[i].route) = units[i].engine =>
            \E out \in Outcomes :
                /\ Len(Cold(d, out)) = Len(units)
                /\ AsIfRecoveredBy(units[i], Cold(d, out)[i])

Kept(units, g) ==
    Safe(units) /\ (IsFlat(units) \/ (Routed(units, g) /\ Reproducible(units, g)))

Inv ==
    /\ TypeOK
    /\ \A g \in Gates : cache[g] # Nothing => Kept(cache[g], g)
    /\ \A w \in Workers : cached[w] # Nothing => Kept(cached[w], engines[w].gate)
    /\ \A w \in Workers : doc[w] # Nothing =>
          Kept(doc[w], engines[w].gate) /\ Stale(doc[w], engines[w]) = {}

-----------------------------------------------------------------------------
(* The decisions.                                                          *)

\* A set of numbers has a least one (by well-founded induction of the library).
LEMMA LeastNumber ==
  ASSUME NEW T, T \subseteq Nat, T # {}
  PROVE  \E n \in T : \A m \in T : n <= m
  <1>1. PICK n \in T : \A m \in T : ~(<<m, n>> \in OpToRel(<, Nat))
    BY WFMin, NatLessThanWellFounded
  <1>2. ASSUME NEW m \in T PROVE n <= m
    <2>1. m \in Nat /\ n \in Nat
      OBVIOUS
    <2>2. ~(m < n)
      BY <1>1, <2>1 DEF OpToRel
    <2>3. QED
      BY <2>1, <2>2
  <1>3. QED
    BY <1>2

\* A cascade whose last rule always applies decides by one of its rules: that rule
\* applies and none before it does.
LEMMA FirstOfApplies ==
  ASSUME NEW n \in Nat \ {0}, NEW rules, DOMAIN rules = 1..n, rules[n].when
  PROVE  \E k \in 1..n : /\ FirstOf(rules) = rules[k] /\ rules[k].when
                         /\ \A j \in 1..n : j < k => ~rules[j].when
  <1> DEFINE T == {i \in DOMAIN rules : rules[i].when}
  <1>1. T \subseteq Nat /\ T \subseteq 1..n /\ n \in T
    OBVIOUS
  <1>2. \E k \in T : \A m \in T : k <= m
    BY <1>1, LeastNumber
  <1>3. Min(T) \in T /\ \A m \in T : Min(T) <= m
    BY <1>2 DEF Min
  <1>4. FirstOf(rules) = rules[Min(T)]
    BY DEF FirstOf
  <1>5. ASSUME NEW j \in 1..n, j < Min(T) PROVE ~rules[j].when
    <2>1. j \in Nat /\ Min(T) \in Nat /\ ~(Min(T) <= j)
      BY <1>1, <1>3, <1>5
    <2>2. QED
      BY <1>3, <2>1
  <1> HIDE DEF T
  <1>6. Min(T) \in 1..n /\ rules[Min(T)].when
    BY <1>1, <1>3 DEF T
  <1>7. QED
    BY <1>4, <1>5, <1>6

\* The reason of a verdict is the text of one of its rules.
LEMMA Verdicts ==
  ASSUME NEW b
  PROVE  Verdict(b).reason \in VerdictReasons
  <1> DEFINE family == Family(b)
             isPdf == family = "pdf" /\ b.pages # <<>>
             rule(when, status, reason) == [when |-> when, status |-> status, reason |-> reason]
             rules == <<
        rule(family \in Unsupported, "unsupported", "no_native_parser"),
        rule(family = "image", "needs_ocr", "image_file"),
        rule(~Readable(b), "failed", "parser_error"),
        rule(family = "spreadsheet" /\ b.text.blank, "suspicious", "empty_spreadsheet"),
        rule(family = "spreadsheet" /\ b.legacy > 0,
             "suspicious", "legacy_font_suspected"),
        rule(family = "spreadsheet", "extracted", "clean"),
        rule(isPdf /\ b.coverage = "none", "needs_ocr", "no_text_layer"),
        rule(isPdf /\ b.sparse, "needs_ocr", "sparse_text_layer"),
        rule(b.legacy > 0, "suspicious", "legacy_font_suspected"),
        rule(b.text.defect, "suspicious", "defective_text"),
        rule(isPdf /\ b.coverage = "low", "suspicious", "partial_text_coverage"),
        rule(b.text.blank, "needs_ocr", "no_text_layer"),
        rule(TRUE, "extracted", "clean") >>
  <1>1. Verdict(b) = FirstOf(rules)
    BY DEF Verdict
  <1> DEFINE last == 13
  <1>2. last \in Nat \ {0} /\ DOMAIN rules = 1..last /\ rules[last].when
    OBVIOUS
  <1>3. \A k \in 1..last : rules[k].reason \in VerdictReasons
    <2>1. \A k \in 1..6 : rules[k].reason \in VerdictReasons
      BY DEF VerdictReasons
    <2>2. \A k \in 7..13 : rules[k].reason \in VerdictReasons
      BY DEF VerdictReasons
    <2> HIDE DEF rules
    <2>3. QED
      BY <2>1, <2>2
  <1> HIDE DEF rules, last
  <1>4. \E k \in 1..last : FirstOf(rules) = rules[k]
    BY <1>2, FirstOfApplies
  <1>5. QED
    BY <1>1, <1>3, <1>4

\* Only what is no PDF is converted as a whole.
LEMMA PlansDecided ==
  ASSUME NEW b, NEW gate
  PROVE  /\ Plan(b, gate) \in Plans
         /\ Plan(b, gate) = "convert_units" => Family(b) # "pdf"
  <1> DEFINE family == Family(b)
             status == Verdict(b).status
             suspected == Verdict(b).reason = "legacy_font_suspected"
             rule(when, plan) == [when |-> when, plan |-> plan]
             rules == <<
        rule(status \in {"failed", "unsupported"} \/ family = "image", "no_recovery"),
        rule(status = "needs_ocr" /\ family = "pdf", "route_pages"),
        rule(status = "needs_ocr", "no_recovery"),
        rule(suspected /\ b.legacy < gate, "keep_native"),
        rule(suspected /\ family = "pdf", "route_pages"),
        rule(suspected, "convert_units"),
        rule(TRUE, "keep_native") >>
  <1>1. Plan(b, gate) = FirstOf(rules).plan
    BY DEF Plan
  <1> DEFINE last == 7
  <1>2. last \in Nat \ {0} /\ DOMAIN rules = 1..last /\ rules[last].when
    OBVIOUS
  <1>3. \A k \in 1..last : rules[k].plan \in Plans /\ (rules[k].plan = "convert_units" => k = 6)
    BY DEF Plans
  <1>4. rules[6].when /\ ~rules[5].when => family # "pdf"
    OBVIOUS
  <1>5. last = 7
    OBVIOUS
  <1> HIDE DEF rules, last
  <1>6. PICK k \in 1..last : FirstOf(rules) = rules[k] /\ rules[k].when /\ \A j \in 1..last : j < k => ~rules[j].when
    BY <1>2, FirstOfApplies
  <1>7. ASSUME k = 6 PROVE family # "pdf"
    <2>1. rules[6].when /\ ~rules[5].when
      BY <1>5, <1>6, <1>7
    <2>2. QED
      BY <1>4, <2>1
  <1>8. QED
    BY <1>1, <1>3, <1>6, <1>7

\* A page that is converted has a legacy font.
LEMMA RoutesDecided ==
  ASSUME NEW b, NEW page
  PROVE  /\ Route(b, page).route \in Routes /\ Route(b, page).reason \in RouteReasons
         /\ Route(b, page).route = "legacy_conversion" => page.font # "none"
  <1> DEFINE suspected == Verdict(b).reason = "legacy_font_suspected"
             rule(when, route, reason) == [when |-> when, route |-> route, reason |-> reason]
             rules == <<
        rule(~b.provenance, "native", "provenance_unavailable"),
        rule(suspected /\ page.font = "embedded", "legacy_conversion", "embedded_font"),
        rule(suspected /\ page.font = "named",
             "legacy_conversion", "legacy_font_referenced"),
        rule(suspected /\ page.image, "ocr", "no_font_scan_backed"),
        rule(suspected /\ page.chars = "none", "native", "empty_page"),
        rule(suspected, "native", "no_font_provenance"),
        rule(page.chars = "many" /\ page.font = "embedded",
             "native", "page_has_text_layer"),
        rule(page.image, "ocr", Verdict(b).reason),
        rule(page.chars = "many", "native", "page_has_text_layer"),
        rule(TRUE, "native", "empty_page") >>
  <1>1. Route(b, page) = FirstOf(rules)
    BY DEF Route
  <1> DEFINE last == 10
  <1>2. last \in Nat \ {0} /\ DOMAIN rules = 1..last /\ rules[last].when
    OBVIOUS
  <1>3. \A k \in 1..last : /\ rules[k].route \in Routes /\ rules[k].reason \in RouteReasons
                           /\ rules[k].route = "legacy_conversion" => k \in {2, 3}
    BY Verdicts DEF Routes, RouteReasons
  <1>4. (rules[2].when => page.font # "none") /\ (rules[3].when => page.font # "none")
    OBVIOUS
  <1> HIDE DEF rules, last
  <1>5. PICK k \in 1..last : FirstOf(rules) = rules[k] /\ rules[k].when
    BY <1>2, FirstOfApplies
  <1>6. ASSUME k \in {2, 3} PROVE page.font # "none"
    BY <1>4, <1>5, <1>6
  <1>7. QED
    BY <1>1, <1>3, <1>5, <1>6

\* PlanReason is a reason a unit may have.
LEMMA PlanReasons ==
  ASSUME NEW b, NEW gate
  PROVE  PlanReason(b, gate) \in UnitReasons
  BY Verdicts DEF PlanReason, UnitReasons, RouteReasons

\* A document read afresh is as many units as its plan says, each on a route that
\* says why; all of them when it is converted as a whole, and a converted page of a
\* PDF has a legacy font.
LEMMA UnitsAreRouted ==
  ASSUME NEW b \in FileFacts, NEW gate
  PROVE  LET routes == UnitRoutes(b, gate)
             plan == Plan(b, gate)
         IN /\ Len(routes) \in Nat /\ DOMAIN routes = 1..Len(routes)
            /\ plan = "no_recovery" => Len(routes) = 0
            /\ plan \in {"route_pages", "convert_units"} => Len(routes) = Len(b.pages)
            /\ plan = "keep_native" => Len(routes) = IF Family(b) = "pdf" THEN Len(b.pages) ELSE 1
            /\ \A i \in DOMAIN routes :
                  /\ routes[i].route \in Routes /\ routes[i].reason \in UnitReasons
                  /\ plan = "convert_units" => routes[i].route = "legacy_conversion"
                  /\ plan = "keep_native" => routes[i].route = "native"
                  /\ routes[i].route = "legacy_conversion" /\ Family(b) = "pdf" =>
                        b.pages[i].font # "none"
  <1> DEFINE routes == UnitRoutes(b, gate)
             plan == Plan(b, gate)
             n == IF Family(b) = "pdf" THEN Len(b.pages) ELSE 1
  <1>1. Len(b.pages) \in Nat /\ DOMAIN b.pages = 1..Len(b.pages)
    BY DEF FileFacts
  <1>2. plan \in Plans /\ (plan = "convert_units" => Family(b) # "pdf")
    BY PlansDecided
  <1>3. PlanReason(b, gate) \in UnitReasons
    BY PlanReasons
  <1>4. CASE plan = "no_recovery"
    <2>1. routes = <<>>
      BY <1>4 DEF UnitRoutes
    <2>2. QED
      BY <1>4, <2>1
  <1>5. CASE plan = "route_pages"
    <2>1. routes = [i \in 1..Len(b.pages) |-> Route(b, b.pages[i])]
      BY <1>1, <1>5 DEF UnitRoutes
    <2>2. Len(routes) = Len(b.pages) /\ DOMAIN routes = 1..Len(b.pages)
      BY <1>1, <2>1
    <2>3. \A i \in DOMAIN routes : routes[i] = Route(b, b.pages[i])
      BY <2>1
    <2>4. \A i \in DOMAIN routes :
             /\ routes[i].route \in Routes /\ routes[i].reason \in UnitReasons
             /\ routes[i].route = "legacy_conversion" => b.pages[i].font # "none"
      BY <2>3, RoutesDecided DEF UnitReasons
    <2>5. QED
      BY <1>1, <1>5, <2>2, <2>4
  <1>6. CASE plan = "convert_units"
    <2>1. routes = [i \in 1..Len(b.pages) |-> [route |-> "legacy_conversion", reason |-> PlanReason(b, gate)]]
      BY <1>1, <1>6 DEF UnitRoutes
    <2>2. Len(routes) = Len(b.pages) /\ DOMAIN routes = 1..Len(b.pages)
      BY <1>1, <2>1
    <2>3. \A i \in DOMAIN routes : routes[i].route = "legacy_conversion" /\ routes[i].reason = PlanReason(b, gate)
      BY <2>1
    <2>4. QED
      BY <1>1, <1>2, <1>3, <1>6, <2>2, <2>3 DEF Routes
  <1>7. CASE plan = "keep_native"
    <2>1. n \in Nat /\ 1..n = IF Family(b) = "pdf" THEN DOMAIN b.pages ELSE {1}
      <3>1. 1..1 = {1}
        OBVIOUS
      <3>2. QED
        BY <1>1, <3>1
    <2>2. routes = [i \in 1..n |-> [route |-> "native", reason |-> PlanReason(b, gate)]]
      BY <1>7, <2>1 DEF UnitRoutes
    <2>3. Len(routes) = n /\ DOMAIN routes = 1..n
      BY <2>1, <2>2
    <2>4. \A i \in DOMAIN routes : routes[i].route = "native" /\ routes[i].reason = PlanReason(b, gate)
      BY <2>2
    <2>5. QED
      BY <1>1, <1>3, <1>7, <2>1, <2>3, <2>4 DEF Routes
  <1>8. QED
    BY <1>2, <1>4, <1>5, <1>6, <1>7 DEF Plans

-----------------------------------------------------------------------------
(* One unit.                                                               *)

\* A unit is made of what its engines have for a version, whoever has them.
LEMMA SameEngines ==
  ASSUME NEW d \in Deployments, NEW e \in Deployments, NEW routed, routed.route \in Routes,
         Version(d, routed.route) = Version(e, routed.route),
         NEW lines, NEW suspect, NEW out
  PROVE  Execute(d, lines, routed, suspect, out) = Execute(e, lines, routed, suspect, out)
  <1>1. /\ d.converter \in Nat /\ d.lexicon \in Nat /\ d.ocr \in Nat /\ d.repair \in Nat
        /\ e.converter \in Nat /\ e.lexicon \in Nat /\ e.ocr \in Nat /\ e.repair \in Nat
    BY DeploymentsAssumption DEF DeploymentsAssumption
  <1>2. Producer(d, routed.route) = Producer(e, routed.route)
    BY <1>1 DEF Producer, Version, Routes
  <1>3. CASE routed.route = "legacy_conversion"
    BY <1>2, <1>3 DEF Execute, ConvertUnit, Unit
  <1>4. CASE routed.route = "ocr"
    <2>1. d.ocr = e.ocr
      BY <1>4 DEF Version
    <2>2. QED
      BY <1>2, <1>4, <2>1 DEF Execute, OcrUnit, Unit
  <1>5. CASE routed.route = "native"
    <2>1. d.repair = e.repair
      BY <1>5 DEF Version
    <2>2. QED
      BY <1>2, <1>5, <2>1 DEF Execute, NativeUnit, Unit
  <1>6. QED
    BY <1>3, <1>4, <1>5 DEF Routes

\* Why a unit is on its route makes no difference to what it is.
LEMMA ReasonsDoNotMatter ==
  ASSUME NEW d, NEW r, NEW s, r.route = s.route, r.route \in Routes, NEW lines, NEW suspect, NEW out
  PROVE  AsIfRecoveredBy(Execute(d, lines, r, suspect, out), Execute(d, lines, s, suspect, out))
  <1>1. CASE r.route = "legacy_conversion"
    BY <1>1 DEF Execute, ConvertUnit, Unit, AsIfRecoveredBy
  <1>2. CASE r.route = "ocr"
    BY <1>2 DEF Execute, OcrUnit, Unit, AsIfRecoveredBy
  <1>3. CASE r.route = "native"
    BY <1>3 DEF Execute, NativeUnit, Unit, AsIfRecoveredBy
  <1>4. QED
    BY <1>1, <1>2, <1>3 DEF Routes

\* What a route may leave in the text of its unit.
LEMMA UnitsAreSafe ==
  ASSUME NEW d \in Deployments, NEW r, r.route \in Routes, r.reason \in UnitReasons,
         NEW lines \in SUBSET LineKinds, NEW suspect, NEW out
  PROVE  LET unit == Execute(d, lines, r, suspect, out)
         IN /\ unit \in Units /\ unit.route = r.route /\ unit.engine = Version(d, r.route)
            /\ r.route = "legacy_conversion" =>
                  \A k \in LineKinds : <<k, "original">> \in unit.text => ~Candidate(k)
            /\ r.route = "ocr" => unit.text \subseteq {<<"plain", "read">>}
  <1> DEFINE unit == Execute(d, lines, r, suspect, out)
  <1>1. Version(d, r.route) \in Seq(Nat) /\ Producer(d, r.route) \in Seq(Nat)
    <2>1. d.converter \in Nat /\ d.lexicon \in Nat /\ d.ocr \in Nat /\ d.repair \in Nat
      BY DeploymentsAssumption DEF DeploymentsAssumption
    <2>2. QED
      BY <2>1 DEF Version, Producer, Routes
  <1>2. ASSUME NEW reason \in UnitReasons, NEW ok \in BOOLEAN, NEW text \in SUBSET (LineKinds \X Forms)
        PROVE  LET u == Unit(d, r.route, reason, ok, text)
               IN u \in Units /\ u.route = r.route /\ u.engine = Version(d, r.route) /\ u.text = text
    BY <1>1 DEF Unit, Units
  <1>3. CASE r.route = "legacy_conversion"
    <2> DEFINE replaced == Replaced(lines, out)
    <2>1. replaced \subseteq LineKinds
      BY DEF Replaced
    <2> HIDE DEF replaced
    <2>2. Withhold(lines, replaced) \in SUBSET (LineKinds \X Forms)
      BY <2>1 DEF Withhold, Original, Forms
    <2>3. \A k \in LineKinds : <<k, "original">> \in Withhold(lines, replaced) => ~Candidate(k)
      BY DEF Withhold, Original
    <2>4. \E reason \in UnitReasons, ok \in BOOLEAN, text \in {{}, Withhold(lines, replaced)} :
             unit = Unit(d, r.route, reason, ok, text)
      BY <1>3 DEF Execute, ConvertUnit, replaced, UnitReasons
    <2>5. QED
      BY <1>2, <1>3, <2>2, <2>3, <2>4
  <1>4. CASE r.route = "ocr"
    <2>1. \E ok \in BOOLEAN, text \in SUBSET {<<"plain", "read">>} : unit = Unit(d, r.route, r.reason, ok, text)
      BY <1>4 DEF Execute, OcrUnit, ReadText
    <2>2. {<<"plain", "read">>} \subseteq LineKinds \X Forms
      BY DEF LineKinds, Forms
    <2>3. QED
      BY <1>2, <1>4, <2>1, <2>2
  <1>5. CASE r.route = "native"
    <2>1. PICK ok \in BOOLEAN, text \in {lines \X {"repaired"}, Original(lines)} :
             unit = Unit(d, r.route, r.reason, ok, text)
      BY <1>5 DEF Execute, NativeUnit
    <2>2. text \in SUBSET (LineKinds \X Forms)
      BY DEF Original, Forms
    <2>3. unit \in Units /\ unit.route = r.route /\ unit.engine = Version(d, r.route)
      BY <1>2, <2>1, <2>2
    <2>4. QED
      BY <1>5, <2>3
  <1>6. QED
    BY <1>3, <1>4, <1>5 DEF Routes

-----------------------------------------------------------------------------
(* One document.                                                           *)

\* A workbook to convert, for a worker without a converter.
Unconvertible(d) ==
    /\ Family(blob) = "spreadsheet" /\ Plan(blob, d.gate) = "convert_units"
    /\ Version(d, "legacy_conversion") = <<0, 0>>

Flat(g) == Family(blob) # "pdf" /\ Len(UnitRoutes(blob, g)) = 1

\* What is in a file, of which a document is made.
LEMMA Contents ==
  ASSUME blob \in Blobs, NEW g, NEW i \in DOMAIN UnitRoutes(blob, g)
  PROVE  /\ blob \in FileFacts
         /\ Len(blob.pages) \in Nat \ {0} /\ Len(UnitRoutes(blob, g)) \in 1..Len(blob.pages)
         /\ NativeLines(i, Flat(g)) \in SUBSET LineKinds
  <1>1. /\ blob \in FileFacts /\ blob.pages \in Seq(PageFacts)
        /\ Family(blob) # "pdf" => blob.pages # <<>>
    BY BlobsAssumption DEF BlobsAssumption, FileFacts
  <1>2. \A k \in DOMAIN blob.pages : blob.pages[k].lines \in SUBSET LineKinds
    <2>1. \A k \in DOMAIN blob.pages : blob.pages[k] \in PageFacts
      BY <1>1
    <2>2. \A page \in PageFacts : page.lines \in SUBSET LineKinds
      BY DEF PageFacts
    <2>3. QED
      BY <2>1, <2>2
  <1>3. Len(blob.pages) \in Nat /\ DOMAIN blob.pages = 1..Len(blob.pages)
    BY <1>1
  <1>4. Family(blob) # "pdf" => Len(blob.pages) > 0
    BY <1>1
  <1> DEFINE n == Len(UnitRoutes(blob, g))
  <1>5. n \in Nat /\ DOMAIN UnitRoutes(blob, g) = 1..n /\ (n = 0 \/ n = Len(blob.pages) \/ (n = 1 /\ Family(blob) # "pdf"))
    BY <1>1, UnitsAreRouted, PlansDecided DEF Plans
  <1>6. i \in 1..n /\ n # 0
    BY <1>5
  <1>7. ~Flat(g) => i \in DOMAIN blob.pages
    BY <1>3, <1>5, <1>6 DEF Flat
  <1>8. NativeLines(i, Flat(g)) \in SUBSET LineKinds
    BY <1>2, <1>7 DEF NativeLines
  <1> HIDE DEF n
  <1>9. n \in 1..Len(blob.pages) /\ Len(blob.pages) \in Nat \ {0}
    BY <1>3, <1>4, <1>5, <1>6
  <1>10. QED
    BY <1>1, <1>8, <1>9 DEF n

\* A cold recovery is unit by unit what the engines make of it, but for a workbook that
\* can not be converted: nothing of that is indexed.
LEMMA ColdUnits ==
  ASSUME blob \in Blobs, NEW d, NEW out
  PROVE  LET units == Cold(d, out)
             routes == UnitRoutes(blob, d.gate)
         IN /\ ~Unconvertible(d) =>
                  /\ Len(units) = Len(routes) /\ DOMAIN units = 1..Len(routes)
                  /\ \A i \in DOMAIN units :
                        units[i] = Execute(d, NativeLines(i, Flat(d.gate)), routes[i], blob.suspect, out)
            /\ Unconvertible(d) => \A i \in DOMAIN units : ~Indexable(units[i])
  <1> DEFINE routes == UnitRoutes(blob, d.gate)
             unit(i) == Execute(d, NativeLines(i, Flat(d.gate)), routes[i], blob.suspect, out)
             units == [i \in DOMAIN routes |-> unit(i)]
  <1>1. blob \in FileFacts
    BY BlobsAssumption DEF BlobsAssumption
  <1>2. Len(routes) \in Nat /\ DOMAIN routes = 1..Len(routes)
    BY <1>1, UnitsAreRouted
  <1>3. Cold(d, out) = IF Unconvertible(d) THEN <<units[1]>> ELSE units
    BY DEF Cold, Unconvertible, Flat
  <1>4. CASE ~Unconvertible(d)
    <2>1. Cold(d, out) = [i \in 1..Len(routes) |-> unit(i)]
      BY <1>2, <1>3, <1>4
    <2> HIDE DEF unit
    <2>2. DOMAIN Cold(d, out) = 1..Len(routes) /\ Len(Cold(d, out)) = Len(routes)
      BY <1>2, <2>1
    <2>3. \A i \in DOMAIN Cold(d, out) : Cold(d, out)[i] = unit(i)
      BY <2>1
    <2>4. QED
      BY <1>4, <2>2, <2>3 DEF unit
  <1>5. CASE Unconvertible(d)
    <2>1. Len(routes) = Len(blob.pages) /\ Len(blob.pages) \in Nat \ {0}
      <3>1. blob.pages \in Seq(PageFacts) /\ blob.pages # <<>>
        BY <1>1, <1>5, BlobsAssumption DEF BlobsAssumption, FileFacts, Unconvertible
      <3>2. QED
        BY <1>1, <1>5, <3>1, UnitsAreRouted DEF Unconvertible
    <2>2. 1 \in DOMAIN routes /\ routes[1].route = "legacy_conversion"
      BY <1>1, <1>2, <1>5, <2>1, UnitsAreRouted DEF Unconvertible
    <2>3. ~unit(1).ok
      BY <1>5, <2>2 DEF Execute, ConvertUnit, Unit, Unconvertible
    <2> HIDE DEF unit
    <2>4. units[1] = unit(1)
      BY <2>2
    <2>5. DOMAIN Cold(d, out) = {1} /\ Cold(d, out)[1] = unit(1)
      BY <1>3, <1>5, <2>4
    <2>6. QED
      BY <1>5, <2>3, <2>5 DEF Indexable
  <1>6. QED
    BY <1>4, <1>5

\* What a cold recovery makes may be kept, if there is something in it to index.
LEMMA ColdIsKept ==
  ASSUME blob \in Blobs, NEW d \in Deployments, NEW out \in Outcomes,
         \E i \in DOMAIN Cold(d, out) : Indexable(Cold(d, out)[i])
  PROVE  /\ Cold(d, out) \in Documents
         /\ Kept(Cold(d, out), d.gate) /\ Stale(Cold(d, out), d) = {}
  <1> DEFINE units == Cold(d, out)
             routes == UnitRoutes(blob, d.gate)
             n == Len(routes)
             lines(i) == NativeLines(i, Flat(d.gate))
  <1>1. /\ ~Unconvertible(d) /\ Len(units) = n /\ DOMAIN units = 1..n
        /\ \A i \in 1..n : units[i] = Execute(d, lines(i), routes[i], blob.suspect, out)
    BY ColdUnits
  <1>2. /\ blob \in FileFacts /\ n \in Nat /\ DOMAIN routes = 1..n
        /\ n # 0 => n \in 1..Len(blob.pages) /\ Len(blob.pages) \in Nat
        /\ \A i \in 1..n : lines(i) \in SUBSET LineKinds
    <2>1. blob \in FileFacts
      BY BlobsAssumption DEF BlobsAssumption
    <2>2. n \in Nat /\ DOMAIN routes = 1..n
      BY <2>1, UnitsAreRouted
    <2>3. n # 0 => 1 \in DOMAIN routes
      BY <2>2
    <2>4. QED
      BY <2>1, <2>2, <2>3, Contents
  <1>3. \A i \in 1..n : /\ routes[i].route \in Routes /\ routes[i].reason \in UnitReasons
                        /\ Plan(blob, d.gate) = "convert_units" => routes[i].route = "legacy_conversion"
                        /\ routes[i].route = "legacy_conversion" /\ Family(blob) = "pdf" =>
                              blob.pages[i].font # "none"
    BY <1>2, UnitsAreRouted
  <1> HIDE DEF lines
  <1>4. \A i \in 1..n :
           /\ units[i] \in Units /\ units[i].route = routes[i].route
           /\ units[i].engine = Version(d, routes[i].route)
           /\ routes[i].route = "legacy_conversion" =>
                 \A k \in LineKinds : <<k, "original">> \in units[i].text => ~Candidate(k)
           /\ routes[i].route = "ocr" => units[i].text \subseteq {<<"plain", "read">>}
    <2> TAKE i \in 1..n
    <2> DEFINE r == routes[i]
               unit == Execute(d, lines(i), r, blob.suspect, out)
    <2>1. r.route \in Routes /\ r.reason \in UnitReasons /\ lines(i) \in SUBSET LineKinds
      BY <1>2, <1>3
    <2> HIDE DEF r
    <2>2. /\ unit \in Units /\ unit.route = r.route /\ unit.engine = Version(d, r.route)
          /\ r.route = "legacy_conversion" =>
                \A k \in LineKinds : <<k, "original">> \in unit.text => ~Candidate(k)
          /\ r.route = "ocr" => unit.text \subseteq {<<"plain", "read">>}
      BY <2>1, UnitsAreSafe
    <2>3. units[i] = unit
      BY <1>1 DEF r
    <2> HIDE DEF unit
    <2>4. QED
      BY <2>2, <2>3 DEF r
  <1>5. units \in Documents
    <2>1. n # 0
      BY <1>1, <1>2
    <2>2. units = [i \in 1..n |-> Execute(d, lines(i), routes[i], blob.suspect, out)]
      BY <1>1, <1>2, <2>1 DEF Cold, Unconvertible, Flat, lines
    <2>3. units \in Seq(Units)
      BY <1>1, <1>2, <1>4, <2>2, IsASeq
    <2>4. QED
      BY <1>1, <1>2, <2>1, <2>3 DEF Documents
  <1>6. Safe(units)
    BY <1>1, <1>3, <1>4 DEF Safe
  <1>7. Routed(units, d.gate)
    BY <1>1, <1>4 DEF Routed
  <1>8. Reproducible(units, d.gate)
    <2> SUFFICES ASSUME NEW i \in 1..n, NEW e \in Deployments, e.gate = d.gate,
                        Version(e, routes[i].route) = Version(d, routes[i].route)
                 PROVE  Len(Cold(e, out)) = n /\ AsIfRecoveredBy(units[i], Cold(e, out)[i])
      BY <1>1, <1>4 DEF Reproducible
    <2>1. ~Unconvertible(e)
      BY <1>1, <1>3 DEF Unconvertible
    <2>2. /\ Len(Cold(e, out)) = n /\ DOMAIN Cold(e, out) = 1..n
          /\ Cold(e, out)[i] = Execute(e, lines(i), routes[i], blob.suspect, out)
      BY <2>1, ColdUnits DEF lines
    <2>3. Cold(e, out)[i] = units[i]
      BY <1>1, <1>3, <2>2, SameEngines
    <2>4. QED
      BY <2>2, <2>3 DEF AsIfRecoveredBy
  <1>9. Stale(units, d) = {}
    BY <1>1, <1>4 DEF Stale
  <1>10. QED
    BY <1>5, <1>6, <1>7, <1>8, <1>9 DEF Kept

\* So may the flat text of a PDF that could not be read again: it is nothing to index
\* if its pages were to be routed.
LEMMA ColdFlatIsKept ==
  ASSUME blob \in Blobs, NEW d \in Deployments, Family(blob) = "pdf", Plan(blob, d.gate) # "no_recovery",
         \E i \in DOMAIN ColdFlat(d) : Indexable(ColdFlat(d)[i])
  PROVE  /\ ColdFlat(d) \in Documents
         /\ Kept(ColdFlat(d), d.gate) /\ Stale(ColdFlat(d), d) = {}
  <1> DEFINE routed == Plan(blob, d.gate) = "route_pages"
             reason == IF routed THEN "reread_failed" ELSE PlanReason(blob, d.gate)
             text == Original(NativeLines(1, TRUE))
             unit == Unit(d, "native", reason, ~routed, text)
             units == <<unit>>
             routes == UnitRoutes(blob, d.gate)
  <1>1. ColdFlat(d) = units
    BY DEF ColdFlat
  <1>2. /\ blob \in FileFacts /\ blob.pages \in Seq(PageFacts)
        /\ Len(blob.pages) \in Nat /\ DOMAIN blob.pages = 1..Len(blob.pages)
    BY BlobsAssumption DEF BlobsAssumption, FileFacts
  <1>3. d.repair \in Nat
    BY DeploymentsAssumption DEF DeploymentsAssumption
  <1>4. reason \in UnitReasons
    BY PlanReasons DEF UnitReasons
  <1>5. text \in SUBSET (LineKinds \X Forms)
    <2>1. \A k \in DOMAIN blob.pages : blob.pages[k] \in PageFacts
      BY <1>2
    <2>2. \A page \in PageFacts : page.lines \in SUBSET LineKinds
      BY DEF PageFacts
    <2>3. NativeLines(1, TRUE) \in SUBSET LineKinds
      BY <2>1, <2>2 DEF NativeLines
    <2>4. QED
      BY <2>3 DEF Original, Forms
  <1> HIDE DEF reason, text, routed
  <1>6. /\ unit.route = "native" /\ unit.ok = ~routed /\ unit.text = text
        /\ unit.engine = <<d.repair>> /\ unit.by = <<d.repair>>
    BY DEF Unit, Version, Producer
  <1>7. unit \in Units
    BY <1>3, <1>4, <1>5 DEF Unit, Units, Version, Producer, Routes
  <1> HIDE DEF unit
  <1>8. Len(units) = 1 /\ DOMAIN units = {1} /\ units[1] = unit /\ units \in Seq(Units)
    BY <1>7
  <1> HIDE DEF units
  <1>9. ~routed /\ text # {}
    BY <1>1, <1>6, <1>8 DEF Indexable
  <1>10. Plan(blob, d.gate) = "keep_native"
    BY <1>9, PlansDecided DEF Plans, routed
  <1>11. Len(blob.pages) # 0
    <2> SUFFICES ASSUME Len(blob.pages) = 0 PROVE text = {}
      BY <1>9
    <2>1. DOMAIN blob.pages = {}
      BY <1>2
    <2>2. NativeLines(1, TRUE) = {}
      BY <2>1 DEF NativeLines
    <2>3. QED
      BY <2>2 DEF text, Original
  <1>12. units \in Documents
    <2>1. 1 \in 1..Len(blob.pages)
      BY <1>2, <1>11
    <2>2. QED
      BY <1>8, <2>1 DEF Documents
  <1>13. Safe(units)
    BY <1>6, <1>8 DEF Safe
  <1>14. Stale(units, d) = {}
    BY <1>6, <1>8 DEF Stale, Version
  <1>15. CASE Len(blob.pages) = 1
    <2>1. /\ Len(routes) = 1 /\ DOMAIN routes = 1..1
          /\ \A i \in 1..1 : routes[i].route = "native"
      BY <1>2, <1>10, <1>15, UnitsAreRouted
    <2>2. routes[1].route = "native"
      BY <2>1
    <2>3. Routed(units, d.gate)
      BY <1>6, <1>8, <2>1, <2>2 DEF Routed
    <2>4. text = Original(blob.pages[1].lines)
      <3>1. DOMAIN blob.pages = {1}
        BY <1>2, <1>15
      <3>2. NativeLines(1, TRUE) = blob.pages[1].lines
        BY <3>1 DEF NativeLines
      <3>3. QED
        BY <3>2 DEF text
    <2> DEFINE out == [convert |-> [k \in Candidates |-> "accepted"], raises |-> FALSE,
                       ocr |-> "blank", repair |-> "unrepaired"]
    <2>5. out \in Outcomes /\ out.repair = "unrepaired"
      BY DEF Outcomes, Validations, OcrAnswers, Repairs
    <2> HIDE DEF out
    <2>6. ASSUME NEW e \in Deployments, e.gate = d.gate, Version(e, "native") = <<d.repair>>
          PROVE  Len(Cold(e, out)) = 1 /\ AsIfRecoveredBy(unit, Cold(e, out)[1])
      <3>1. ~Unconvertible(e)
        BY DEF Unconvertible
      <3>2. /\ Len(Cold(e, out)) = 1 /\ DOMAIN Cold(e, out) = 1..1
            /\ \A i \in DOMAIN Cold(e, out) :
                  Cold(e, out)[i] = Execute(e, NativeLines(i, Flat(e.gate)), routes[i], blob.suspect, out)
        BY <2>1, <2>6, <3>1, ColdUnits
      <3>3. Cold(e, out)[1] = Execute(e, NativeLines(1, Flat(e.gate)), routes[1], blob.suspect, out)
        BY <3>2
      <3>4. NativeLines(1, Flat(e.gate)) = blob.pages[1].lines
        BY DEF NativeLines, Flat
      <3>5. Cold(e, out)[1] = Unit(e, "native", routes[1].reason, TRUE, text)
        BY <2>2, <2>4, <2>5, <3>3, <3>4 DEF Execute, NativeUnit
      <3>6. Producer(e, "native") = <<d.repair>>
        BY <2>6 DEF Version, Producer
      <3>7. unit.ok = TRUE
        BY <1>9 DEF unit, Unit
      <3>8. /\ Cold(e, out)[1].route = "native" /\ Cold(e, out)[1].ok = TRUE
            /\ Cold(e, out)[1].text = text /\ Cold(e, out)[1].by = <<d.repair>>
        BY <3>5, <3>6 DEF Unit
      <3>9. QED
        BY <1>6, <3>2, <3>7, <3>8 DEF AsIfRecoveredBy
    <2>7. Reproducible(units, d.gate)
      BY <1>6, <1>8, <2>5, <2>6 DEF Reproducible
    <2>8. QED
      BY <1>1, <1>12, <1>13, <1>14, <2>3, <2>7 DEF Kept
  <1>16. CASE Len(blob.pages) # 1
    <2>1. IsFlat(units)
      BY <1>2, <1>8, <1>11, <1>16 DEF IsFlat
    <2>2. QED
      BY <1>1, <1>12, <1>13, <1>14, <2>1 DEF Kept
  <1>17. QED
    BY <1>15, <1>16

\* A workbook that could not be read again has nothing to index.
LEMMA UnreadHasNothing ==
  ASSUME NEW d
  PROVE  \A i \in DOMAIN UnreadWorkbook(d) : ~Indexable(UnreadWorkbook(d)[i])
  BY DEF UnreadWorkbook, Unit, Indexable

\* What a refresh makes of a kept document may be kept, and is no longer stale.
LEMMA RefreshedIsKept ==
  ASSUME blob \in Blobs, NEW d \in Deployments, NEW out \in Outcomes, Family(blob) = "pdf",
         NEW units \in Documents, Kept(units, d.gate)
  PROVE  /\ Refreshed(units, d, out) \in Documents
         /\ Kept(Refreshed(units, d, out), d.gate) /\ Stale(Refreshed(units, d, out), d) = {}
  <1> DEFINE fresh == Refreshed(units, d, out)
             n == Len(units)
             redone(i) == Execute(d, NativeLines(i, FALSE), units[i], blob.suspect, out)
  <1>1. units \in Seq(Units) /\ n \in 1..Len(blob.pages)
    BY DEF Documents
  <1>2. /\ blob \in FileFacts /\ blob.pages \in Seq(PageFacts)
        /\ Len(blob.pages) \in Nat /\ DOMAIN blob.pages = 1..Len(blob.pages)
    BY BlobsAssumption DEF BlobsAssumption, FileFacts
  <1>3. n \in Nat /\ DOMAIN units = 1..n /\ \A i \in 1..n : units[i] \in Units
    BY <1>1
  <1>4. \A i \in 1..n : NativeLines(i, FALSE) \in SUBSET LineKinds
    <2>1. \A k \in DOMAIN blob.pages : blob.pages[k] \in PageFacts
      BY <1>2
    <2>2. \A page \in PageFacts : page.lines \in SUBSET LineKinds
      BY DEF PageFacts
    <2>3. \A i \in 1..n : i \in DOMAIN blob.pages
      BY <1>1, <1>2
    <2>4. QED
      BY <2>1, <2>2, <2>3 DEF NativeLines
  <1>5. \A i \in 1..n : units[i].route \in Routes /\ units[i].reason \in UnitReasons
    BY <1>3 DEF Units
  <1>6. ASSUME NEW i \in 1..n
        PROVE  /\ redone(i) \in Units /\ redone(i).route = units[i].route
               /\ redone(i).engine = Version(d, units[i].route)
               /\ units[i].route = "legacy_conversion" =>
                     \A k \in LineKinds : <<k, "original">> \in redone(i).text => ~Candidate(k)
               /\ units[i].route = "ocr" => redone(i).text \subseteq {<<"plain", "read">>}
    <2> DEFINE r == units[i]
               lines == NativeLines(i, FALSE)
               unit == Execute(d, lines, r, blob.suspect, out)
    <2>1. r.route \in Routes /\ r.reason \in UnitReasons /\ lines \in SUBSET LineKinds
      BY <1>4, <1>5
    <2> HIDE DEF r, lines
    <2>2. /\ unit \in Units /\ unit.route = r.route /\ unit.engine = Version(d, r.route)
          /\ r.route = "legacy_conversion" =>
                \A k \in LineKinds : <<k, "original">> \in unit.text => ~Candidate(k)
          /\ r.route = "ocr" => unit.text \subseteq {<<"plain", "read">>}
      BY <2>1, UnitsAreSafe
    <2> HIDE DEF unit
    <2>3. redone(i) = unit
      BY DEF unit, r, lines
    <2> HIDE DEF redone
    <2>4. QED
      BY <2>2, <2>3 DEF r
  <1>7. fresh = [i \in 1..n |-> IF i \in Stale(units, d) THEN redone(i) ELSE units[i]]
    BY <1>3 DEF Refreshed
  <1> HIDE DEF redone
  <1>8. \A i \in 1..n : fresh[i] = IF i \in Stale(units, d) THEN redone(i) ELSE units[i]
    BY <1>7
  <1>9. \A i \in 1..n : fresh[i] \in Units /\ fresh[i].route = units[i].route
    BY <1>3, <1>6, <1>8
  <1>10. fresh \in Seq(Units) /\ Len(fresh) = n /\ DOMAIN fresh = 1..n
    BY <1>3, <1>7, <1>9, IsASeq
  <1>11. fresh \in Documents
    BY <1>1, <1>10 DEF Documents
  <1> HIDE DEF fresh
  <1>12. Safe(fresh)
    <2>1. Safe(units)
      BY DEF Kept
    <2>2. QED
      BY <1>3, <1>6, <1>8, <1>9, <1>10, <2>1 DEF Safe
  <1>13. Stale(fresh, d) = {}
    BY <1>3, <1>6, <1>8, <1>9, <1>10 DEF Stale
  <1>14. CASE IsFlat(units)
    <2>1. IsFlat(fresh)
      BY <1>10, <1>14 DEF IsFlat
    <2>2. QED
      BY <1>11, <1>12, <1>13, <2>1 DEF Kept, fresh
  <1>15. CASE Routed(units, d.gate) /\ Reproducible(units, d.gate)
    <2> DEFINE routes == UnitRoutes(blob, d.gate)
    <2>1. Len(routes) = n /\ \A i \in 1..n : routes[i].route = units[i].route
      BY <1>3, <1>15 DEF Routed
    <2>2. Routed(fresh, d.gate)
      BY <1>9, <1>10, <2>1 DEF Routed
    <2>3. ASSUME NEW i \in 1..n, NEW e \in Deployments, e.gate = d.gate, Version(e, fresh[i].route) = fresh[i].engine
          PROVE  \E o \in Outcomes : Len(Cold(e, o)) = n /\ AsIfRecoveredBy(fresh[i], Cold(e, o)[i])
      <3>1. CASE i \notin Stale(units, d)
        <4>1. fresh[i] = units[i]
          BY <1>8, <3>1
        <4>2. QED
          BY <1>3, <1>15, <2>3, <4>1 DEF Reproducible
      <3>2. CASE i \in Stale(units, d)
        <4> DEFINE r == units[i]
                   lines == NativeLines(i, FALSE)
        <4>1. fresh[i] = Execute(d, lines, r, blob.suspect, out) /\ r.route \in Routes
          BY <1>5, <1>8, <3>2 DEF redone
        <4>2. Version(d, r.route) = Version(e, r.route)
          BY <1>6, <1>8, <1>9, <2>3, <3>2
        <4>3. ~Unconvertible(e)
          BY DEF Unconvertible
        <4>4. /\ Len(Cold(e, out)) = n /\ DOMAIN Cold(e, out) = 1..n
              /\ Cold(e, out)[i] = Execute(e, NativeLines(i, Flat(e.gate)), routes[i], blob.suspect, out)
          BY <2>1, <2>3, <4>3, ColdUnits
        <4>5. NativeLines(i, Flat(e.gate)) = lines
          BY DEF NativeLines, Flat
        <4>6. r.route = routes[i].route
          BY <2>1
        <4> HIDE DEF r, lines
        <4>7. fresh[i] = Execute(e, lines, r, blob.suspect, out)
          BY <4>1, <4>2, SameEngines
        <4>8. AsIfRecoveredBy(fresh[i], Cold(e, out)[i])
          BY <4>1, <4>4, <4>5, <4>6, <4>7, ReasonsDoNotMatter
        <4>9. QED
          BY <4>4, <4>8
      <3>3. QED
        BY <3>1, <3>2
    <2>4. Reproducible(fresh, d.gate)
      BY <1>10, <2>3 DEF Reproducible
    <2>5. QED
      BY <1>11, <1>12, <1>13, <2>2, <2>4 DEF Kept, fresh
  <1>16. QED
    BY <1>14, <1>15 DEF Kept

-----------------------------------------------------------------------------
(* Steps.                                                                  *)

\* The file stays, and with it what may be kept of it.
LEMMA SameFile ==
  ASSUME blob' = blob
  PROVE  /\ Documents' = Documents
         /\ \A units, g : Kept(units, g)' <=> Kept(units, g)
  <1>1. \A k : Candidate(k)' <=> Candidate(k)
    BY DEF Candidate
  <1>2. Candidates' = Candidates /\ Outcomes' = Outcomes
    BY DEF Candidates, Outcomes
  <1>3. /\ \A j, flat : NativeLines(j, flat)' = NativeLines(j, flat)
        /\ \A lines, out : Replaced(lines, out)' = Replaced(lines, out)
        /\ \A lines, replaced : Withhold(lines, replaced)' = Withhold(lines, replaced)
    BY <1>1 DEF NativeLines, Replaced, Withhold
  <1>4. \A d, lines, reason, out : ConvertUnit(d, lines, reason, out)' = ConvertUnit(d, lines, reason, out)
    <2> TAKE d, lines, reason, out
    <2>1. {k \in lines : Candidate(k)'} = {k \in lines : Candidate(k)}
      BY <1>1
    <2>2. /\ Replaced(lines, out)' = Replaced(lines, out)
          /\ \A replaced : Withhold(lines, replaced)' = Withhold(lines, replaced)
      BY <1>3
    <2>3. QED
      BY <2>1, <2>2 DEF ConvertUnit
  <1>5. \A d, lines, r, suspect, out : Execute(d, lines, r, suspect, out)' = Execute(d, lines, r, suspect, out)
    BY <1>4 DEF Execute
  <1>6. \A d, out : Cold(d, out)' = Cold(d, out)
    BY <1>3, <1>5 DEF Cold
  <1>7. \A units : (Safe(units)' <=> Safe(units)) /\ (IsFlat(units)' <=> IsFlat(units))
    BY <1>1 DEF Safe, IsFlat
  <1>8. \A units, g : (Routed(units, g)' <=> Routed(units, g)) /\ (Reproducible(units, g)' <=> Reproducible(units, g))
    BY <1>2, <1>6 DEF Routed, Reproducible
  <1>9. Documents' = Documents
    BY DEF Documents
  <1>10. QED
    BY <1>7, <1>8, <1>9 DEF Kept

\* Whatever is recovered is served and waits to be stored only if there is something in
\* it to index.
LEMMA FinishStep ==
  ASSUME Inv, NEW w \in Workers, NEW recovered, NEW warm \in BOOLEAN, Finish(w, recovered, warm),
         left' \in [{"deploys", "faults"} -> Nat],
         (\E i \in DOMAIN recovered : Indexable(recovered[i])) =>
            /\ recovered \in Documents
            /\ Kept(recovered, engines[w].gate) /\ Stale(recovered, engines[w]) = {}
  PROVE  Inv'
  <1>1. blob' = blob /\ cache' = cache /\ engines' = engines
    BY DEF Finish
  <1>2. Documents' = Documents /\ \A units, g : Kept(units, g)' <=> Kept(units, g)
    BY <1>1, SameFile
  <1>3. TypeOK
    BY DEF Inv
  <1>4. PICK r : /\ doc' = [doc EXCEPT ![w] = r]
                 /\ r = Nothing \/ (r = recovered /\ \E i \in DOMAIN recovered : Indexable(recovered[i]))
    BY DEF Finish
  <1>5. /\ cached' = [cached EXCEPT ![w] = Nothing] /\ header' = [header EXCEPT ![w] = 0]
        /\ pc' \in [Workers -> {"idle", "units", "work", "save"}]
    BY <1>3 DEF Finish, TypeOK
  <1>6. TypeOK'
    BY <1>1, <1>2, <1>3, <1>4, <1>5 DEF TypeOK
  <1>7. \A g \in Gates : cache'[g] # Nothing => Kept(cache[g], g)'
    BY <1>1, <1>2 DEF Inv
  <1>8. \A v \in Workers : cached'[v] # Nothing => Kept(cached[v], engines[v].gate)'
    <2>1. \A v \in Workers : cached'[v] = IF v = w THEN Nothing ELSE cached[v]
      BY <1>3, <1>5 DEF TypeOK
    <2>2. QED
      BY <1>1, <1>2, <2>1 DEF Inv
  <1>9. \A v \in Workers : doc'[v] # Nothing => Kept(doc[v], engines[v].gate)' /\ Stale(doc'[v], engines'[v]) = {}
    <2>1. \A v \in Workers : doc'[v] = IF v = w THEN r ELSE doc[v]
      BY <1>3, <1>4 DEF TypeOK
    <2>2. QED
      BY <1>1, <1>2, <1>4, <2>1 DEF Inv
  <1>10. QED
    BY <1>6, <1>7, <1>8, <1>9 DEF Inv

\* A step that changes no more than where it is, and drops or stores what it has.
LEMMA OtherSteps ==
  ASSUME Inv, [Next]_vars, blob' = blob, TypeOK',
         \A g \in Gates : \/ cache'[g] \in {Nothing, cache[g]}
                          \/ \E v \in Workers : engines[v].gate = g /\ cache'[g] = doc[v],
         \A v \in Workers : \/ engines'[v] = engines[v] /\ cached'[v] \in {Nothing, cached[v], cache[engines[v].gate]}
                            \/ cached'[v] = Nothing,
         \A v \in Workers : (engines'[v] = engines[v] /\ doc'[v] = doc[v]) \/ doc'[v] = Nothing
  PROVE  Inv'
  <1>1. \A units, g : Kept(units, g)' <=> Kept(units, g)
    BY SameFile
  <1>2. \A v \in Workers : engines[v].gate \in Gates
    BY DEF Inv, TypeOK, Gates
  <1>3. \A g \in Gates : cache'[g] # Nothing => Kept(cache[g], g)'
    BY <1>1 DEF Inv
  <1>4. \A v \in Workers : cached'[v] # Nothing => Kept(cached[v], engines[v].gate)'
    BY <1>1, <1>2 DEF Inv
  <1>5. \A v \in Workers : doc'[v] # Nothing => Kept(doc[v], engines[v].gate)' /\ Stale(doc'[v], engines'[v]) = {}
    BY <1>1 DEF Inv
  <1>6. QED
    BY <1>3, <1>4, <1>5 DEF Inv

LEMMA InvStep ==
  ASSUME Inv, [Next]_vars
  PROVE  Inv'
  <1>1. TypeOK /\ blob \in Blobs /\ engines \in [Workers -> Deployments] /\ \A w \in Workers : engines[w].gate \in Gates
    BY DEF Inv, TypeOK, Gates
  <1>2. left \in [{"deploys", "faults"} -> Nat]
    BY <1>1 DEF TypeOK
  <1>3. ASSUME NEW w \in Workers, cached[w] # Nothing
        PROVE  cached[w] \in Documents /\ Kept(cached[w], engines[w].gate)
    BY <1>1, <1>3 DEF Inv, TypeOK
  <1>4. ASSUME NEW w \in Workers, NEW out \in Outcomes, \E i \in DOMAIN Cold(engines[w], out) : Indexable(Cold(engines[w], out)[i])
        PROVE  /\ Cold(engines[w], out) \in Documents
               /\ Kept(Cold(engines[w], out), engines[w].gate) /\ Stale(Cold(engines[w], out), engines[w]) = {}
    BY <1>1, <1>4, ColdIsKept
  <1>5. ASSUME NEW w \in Workers, LoadHeader(w) PROVE Inv'
    <2>1. /\ blob' = blob /\ cache' = cache /\ engines' = engines /\ cached' = cached /\ left' = left
          /\ doc' = [doc EXCEPT ![w] = Nothing] /\ pc' = [pc EXCEPT ![w] = "units"]
          /\ header' = [header EXCEPT ![w] = IF cache[engines[w].gate] = Nothing THEN 0 ELSE Len(cache[engines[w].gate])]
      BY <1>5 DEF LoadHeader
    <2>2. Documents' = Documents
      BY <2>1, SameFile
    <2>3. cache[engines[w].gate] # Nothing => Len(cache[engines[w].gate]) \in Nat
      BY <1>1 DEF TypeOK, Documents
    <2>4. header' \in [Workers -> Nat]
      BY <1>1, <2>1, <2>3 DEF TypeOK
    <2>5. TypeOK'
      BY <1>1, <2>1, <2>2, <2>4 DEF TypeOK
    <2>6. \A v \in Workers : doc'[v] = doc[v] \/ doc'[v] = Nothing
      BY <1>1, <2>1 DEF TypeOK
    <2>7. QED
      BY <2>1, <2>5, <2>6, OtherSteps
  <1>6. ASSUME NEW w \in Workers, LoadUnits(w) PROVE Inv'
    <2>1. PICK row \in {Nothing, cache[engines[w].gate]} :
          /\ blob' = blob /\ cache' = cache /\ engines' = engines /\ header' = header /\ doc' = doc /\ left' = left
          /\ cached' = [cached EXCEPT ![w] = row] /\ pc' = [pc EXCEPT ![w] = "work"]
      BY <1>6 DEF LoadUnits
    <2>2. Documents' = Documents
      BY <2>1, SameFile
    <2>3. TypeOK'
      BY <1>1, <2>1, <2>2 DEF TypeOK
    <2>4. \A v \in Workers : cached'[v] \in {Nothing, cached[v], cache[engines[v].gate]}
      BY <1>1, <2>1 DEF TypeOK
    <2>5. QED
      BY <2>1, <2>3, <2>4, OtherSteps
  <1>7. ASSUME NEW w \in Workers, ServeWarm(w) PROVE Inv'
    BY <1>2, <1>3, <1>7, FinishStep DEF ServeWarm, Warm
  <1>8. ASSUME NEW w \in Workers, RefreshUnits(w) PROVE Inv'
    <2>1. PICK out \in Outcomes : Finish(w, Refreshed(cached[w], engines[w], out), FALSE)
      BY <1>8 DEF RefreshUnits
    <2>2. /\ Refreshed(cached[w], engines[w], out) \in Documents
          /\ Kept(Refreshed(cached[w], engines[w], out), engines[w].gate)
          /\ Stale(Refreshed(cached[w], engines[w], out), engines[w]) = {}
      BY <1>1, <1>3, <1>8, RefreshedIsKept DEF RefreshUnits
    <2>3. left' = left
      BY <1>8 DEF RefreshUnits
    <2>4. QED
      BY <1>2, <2>1, <2>2, <2>3, FinishStep
  <1>9. ASSUME NEW w \in Workers, RecoverCold(w) PROVE Inv'
    BY <1>2, <1>4, <1>9, FinishStep DEF RecoverCold
  <1>10. ASSUME NEW w \in Workers, RereadFails(w) PROVE Inv'
    <2>1. left' \in [{"deploys", "faults"} -> Nat]
      BY <1>2, <1>10 DEF RereadFails
    <2>2. CASE /\ Family(blob) = "pdf" /\ Plan(blob, engines[w].gate) # "no_recovery"
               /\ Finish(w, ColdFlat(engines[w]), FALSE)
      BY <1>1, <2>1, <2>2, ColdFlatIsKept, FinishStep
    <2>3. ASSUME NEW out \in Outcomes, Finish(w, Cold(engines[w], out), FALSE) PROVE Inv'
      BY <1>4, <2>1, <2>3, FinishStep
    <2>4. CASE Finish(w, UnreadWorkbook(engines[w]), FALSE)
      BY <2>1, <2>4, UnreadHasNothing, FinishStep
    <2>5. QED
      BY <1>10, <2>2, <2>3, <2>4 DEF RereadFails
  <1>11. ASSUME NEW w \in Workers, Save(w) PROVE Inv'
    <2>1. /\ blob' = blob /\ engines' = engines /\ header' = header /\ cached' = cached /\ left' = left
          /\ cache' = [cache EXCEPT ![engines[w].gate] = doc[w]]
          /\ pc' = [pc EXCEPT ![w] = "idle"] /\ doc' = [doc EXCEPT ![w] = Nothing]
      BY <1>11 DEF Save
    <2>2. Documents' = Documents
      BY <2>1, SameFile
    <2>3. TypeOK'
      BY <1>1, <2>1, <2>2 DEF TypeOK
    <2>4. /\ \A g \in Gates : cache'[g] = cache[g] \/ (engines[w].gate = g /\ cache'[g] = doc[w])
          /\ \A v \in Workers : doc'[v] = doc[v] \/ doc'[v] = Nothing
      BY <1>1, <2>1 DEF TypeOK
    <2>5. QED
      BY <2>1, <2>3, <2>4, OtherSteps
  <1>12. ASSUME NEW w \in Workers, SaveFails(w) PROVE Inv'
    <2>1. /\ blob' = blob /\ cache' = cache /\ engines' = engines /\ header' = header /\ cached' = cached /\ left' = left
          /\ pc' = [pc EXCEPT ![w] = "idle"] /\ doc' = [doc EXCEPT ![w] = Nothing]
      BY <1>12 DEF SaveFails
    <2>2. Documents' = Documents
      BY <2>1, SameFile
    <2>3. TypeOK'
      BY <1>1, <2>1, <2>2 DEF TypeOK
    <2>4. \A v \in Workers : doc'[v] = doc[v] \/ doc'[v] = Nothing
      BY <1>1, <2>1 DEF TypeOK
    <2>5. QED
      BY <2>1, <2>3, <2>4, OtherSteps
  <1>13. ASSUME NEW w \in Workers, NEW d \in Deployments, Redeploy(w, d) PROVE Inv'
    <2>1. /\ blob' = blob /\ cache' = cache /\ engines' = [engines EXCEPT ![w] = d]
          /\ header' = [header EXCEPT ![w] = 0] /\ cached' = [cached EXCEPT ![w] = Nothing]
          /\ pc' = [pc EXCEPT ![w] = "idle"] /\ doc' = [doc EXCEPT ![w] = Nothing]
      BY <1>13 DEF Redeploy
    <2>2. Documents' = Documents
      BY <2>1, SameFile
    <2>3. left' \in [{"deploys", "faults"} -> Nat]
      BY <1>2, <1>13 DEF Redeploy
    <2>4. TypeOK'
      BY <1>1, <2>1, <2>2, <2>3 DEF TypeOK
    <2>5. \A v \in Workers : (engines'[v] = engines[v] /\ cached'[v] = cached[v] /\ doc'[v] = doc[v])
                             \/ (cached'[v] = Nothing /\ doc'[v] = Nothing)
      BY <1>1, <2>1 DEF TypeOK
    <2>6. QED
      BY <2>1, <2>4, <2>5, OtherSteps
  <1>14. ASSUME NEW g \in Gates, Purge(g) PROVE Inv'
    <2>1. /\ blob' = blob /\ engines' = engines /\ cached' = cached /\ doc' = doc /\ left' = left /\ pc' = pc
          /\ cache' = [cache EXCEPT ![g] = Nothing]
          /\ header' = [w \in Workers |-> IF engines[w].gate = g THEN 0 ELSE header[w]]
      BY <1>14 DEF Purge
    <2>2. Documents' = Documents
      BY <2>1, SameFile
    <2>3. TypeOK'
      BY <1>1, <2>1, <2>2 DEF TypeOK
    <2>4. \A h \in Gates : cache'[h] = cache[h] \/ cache'[h] = Nothing
      BY <1>1, <2>1 DEF TypeOK
    <2>5. QED
      BY <2>1, <2>3, <2>4, OtherSteps
  <1>15. CASE UNCHANGED vars
    <2>1. /\ blob' = blob /\ cache' = cache /\ engines' = engines /\ header' = header
          /\ cached' = cached /\ doc' = doc /\ left' = left /\ pc' = pc
      BY <1>15 DEF vars
    <2>2. Documents' = Documents
      BY <2>1, SameFile
    <2>3. TypeOK'
      BY <1>1, <2>1, <2>2 DEF TypeOK
    <2>4. QED
      BY <2>1, <2>3, OtherSteps
  <1>16. QED
    BY <1>5, <1>6, <1>7, <1>8, <1>9, <1>10, <1>11, <1>12, <1>13, <1>14, <1>15 DEF Next

LEMMA InitInv ==
  ASSUME Init
  PROVE  Inv
  <1>1. TypeOK
    BY BoundsAssumption DEF Init, TypeOK, BoundsAssumption
  <1>2. /\ \A g \in Gates : cache[g] = Nothing
        /\ \A w \in Workers : cached[w] = Nothing /\ doc[w] = Nothing
    BY DEF Init
  <1>3. QED
    BY <1>1, <1>2 DEF Inv

-----------------------------------------------------------------------------
(* The theorems.                                                           *)

\* The inductive invariant holds throughout.
THEOREM RecoveryInvariant == Spec => []Inv
  <1>1. Init => Inv
    BY InitInv
  <1>2. Inv /\ [Next]_vars => Inv'
    BY InvStep
  <1>3. QED
    BY <1>1, <1>2, PTL DEF Spec

\* The variables keep their types: what is stored is never an empty document, and never
\* more units than the file has pages.
THEOREM RecoveryTypeCorrect == Spec => []TypeOK
  <1>1. Inv => TypeOK
    BY DEF Inv
  <1>2. QED
    BY <1>1, RecoveryInvariant, PTL

\* Whatever a worker serves is unit by unit what a cold recovery with its own engines
\* could have produced, whoever stored it and however often it was refreshed.
THEOREM CacheOnlySpares == Spec => []CacheIsTransparent
  <1>1. ASSUME Inv PROVE CacheIsTransparent
    <2> SUFFICES ASSUME NEW w \in Workers, doc[w] # Nothing, ~IsFlat(doc[w]), NEW i \in DOMAIN doc[w]
                 PROVE  \E out \in Outcomes :
                            /\ Len(Cold(engines[w], out)) = Len(doc[w])
                            /\ AsIfRecoveredBy(doc[w][i], Cold(engines[w], out)[i])
      BY DEF CacheIsTransparent
    <2>1. engines[w] \in Deployments
      BY <1>1 DEF Inv, TypeOK
    <2>2. Reproducible(doc[w], engines[w].gate) /\ Stale(doc[w], engines[w]) = {}
      BY <1>1 DEF Inv, Kept
    <2>3. Version(engines[w], doc[w][i].route) = doc[w][i].engine
      BY <2>2 DEF Stale
    <2>4. QED
      BY <2>1, <2>2, <2>3 DEF Reproducible
  <1>2. QED
    BY <1>1, RecoveryInvariant, PTL

\* No original that an engine could not vouch for is served or stored.
THEOREM OriginalsAreWithheld == Spec => []UntrustedTextIsWithheld
  <1>1. Inv => UntrustedTextIsWithheld
    <2>1. Inv => /\ \A g \in Gates : cache[g] # Nothing => Safe(cache[g])
                 /\ \A w \in Workers : doc[w] # Nothing => Safe(doc[w])
      BY DEF Inv, Kept
    <2>2. QED
      BY <2>1 DEF Safe, UntrustedTextIsWithheld
  <1>2. QED
    BY <1>1, RecoveryInvariant, PTL
=============================================================================
