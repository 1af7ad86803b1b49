-------------------------------- MODULE Scoring --------------------------------
(***************************************************************************)
(* The deterministic lead score (scoring/engine.py, facts.py, bands.py):   *)
(* five categories of at most 20 points each, from facts that research     *)
(* gathers one by one.                                                     *)
(*                                                                         *)
(* A fact is the evidence the engine tells apart; the description is its   *)
(* length up to the thresholds of the engine, and whether it names one of  *)
(* the commercial keywords.                                                *)
(***************************************************************************)
EXTENDS Integers, FiniteSetsExt

CATEGORY_MAX == 20

Lengths == {0, 1, 20, 40, 80}

\* Facts that are there or not.
Signals == {"website", "verified", "https", "location", "email", "phone", "address",
            "contact_page", "contact_form", "booking"}

\* The industry, and whether it is one of _AUTOMATION_INDUSTRIES.
Industries == {"unknown", "other", "automation"}

VARIABLE facts \* what is known of the company

Has(f) == f \in facts.signals

HasIndustry == facts.industry # "unknown"

\* Points of a rule that holds.
Points(rule, n) == IF rule THEN n ELSE 0

Clamp(n) == IF n > CATEGORY_MAX THEN CATEGORY_MAX ELSE n

----------------------------------------------------------------------------
WebsiteQuality ==
    Points(Has("website"), 5) + Points(Has("verified"), 5) + Points(Has("https"), 3)
      + Points(facts.length > 0, 3)
      + Points(facts.length >= 80, 4) + Points(facts.length \in 20..79, 2)

OnlinePresence ==
    Points(facts.sources >= 4, 12) + Points(facts.sources \in 2..3, 8) + Points(facts.sources = 1, 4)
      + Points(HasIndustry, 4) + Points(Has("location"), 4)

LeadCapture ==
    Points(Has("contact_form"), 8) + Points(Has("contact_page"), 4) + Points(Has("booking"), 4)
      + Points(Has("email"), 2) + Points(Has("phone"), 2)

\* Few sources leave a bonus for a website without form and booking; the bonus of
\* the industry takes what the category has left.
ReadinessWith(bonus) ==
    Points(Has("website"), 5) + Points(HasIndustry, 4) + Points(Has("location"), 3)
      + Points(facts.length >= 40, 4) + Points(facts.sources >= 2, 4)
      + Points(facts.sources < 2 /\ Has("website") /\ ~Has("contact_form") /\ ~Has("booking"), bonus)

ReadinessRewardingGaps == ReadinessWith(5)

Readiness == ReadinessWith(2)

IndustryBonus(points) ==
    IF facts.industry # "automation" \/ points >= CATEGORY_MAX THEN 0
    ELSE Min({2, CATEGORY_MAX - points})

AutomationPotential == Readiness + IndustryBonus(Readiness)

CommercialPotential ==
    Points(Has("location"), 5) + Points(HasIndustry, 5) + Points(Has("verified"), 5)
      + Points(facts.keywords, 5) + Points(~facts.keywords /\ Has("address"), 3)

TotalScore ==
    Clamp(WebsiteQuality) + Clamp(OnlinePresence) + Clamp(LeadCapture)
      + Clamp(AutomationPotential) + Clamp(CommercialPotential)

\* band_for_total.
Band ==
    IF TotalScore >= 85 THEN "high"
    ELSE IF TotalScore >= 70 THEN "good"
    ELSE IF TotalScore >= 50 THEN "medium" ELSE "low"

----------------------------------------------------------------------------
ScoringInit ==
    facts = [signals |-> {}, length |-> 0, keywords |-> FALSE, sources |-> 0, industry |-> "unknown"]

\* A signal is found; a website is known before it is verified or seen to use HTTPS.
FindSignal(f) ==
    /\ ~Has(f)
    /\ f \in {"verified", "https"} => Has("website")
    /\ facts' = [facts EXCEPT !.signals = @ \cup {f}]

FindSource ==
    /\ facts.sources < 4
    /\ facts' = [facts EXCEPT !.sources = @ + 1]

\* The description and the industry are taken once, from the company or its evidence.
FindDescription(length, keywords) ==
    /\ facts.length = 0
    /\ facts' = [facts EXCEPT !.length = length, !.keywords = keywords]

FindIndustry(industry) ==
    /\ ~HasIndustry
    /\ facts' = [facts EXCEPT !.industry = industry]

ScoringNext ==
    \/ \E f \in Signals : FindSignal(f)
    \/ FindSource
    \/ \E length \in Lengths \ {0}, keywords \in BOOLEAN : FindDescription(length, keywords)
    \/ \E industry \in Industries \ {"unknown"} : FindIndustry(industry)

ScoringSpec == ScoringInit /\ [][ScoringNext]_facts

----------------------------------------------------------------------------
\* CompanyScoringFacts, by what the engine tells apart.
Facts ==
    [signals : SUBSET Signals, length : Lengths, keywords : BOOLEAN, sources : 0..4,
     industry : Industries]

\* Type invariant.
ScoringTypeOK == facts \in Facts

\* A fact more never lowers the score, though a contact form, a booking page or a second
\* source takes a bonus away and keywords replace the points of the address; so a
\* company that qualified (business_state.py takes the bands good and high) never loses
\* its place to better evidence.
EvidenceNeverLowersTheScore ==
    [][facts' # facts =>
        /\ TotalScore' >= TotalScore
        /\ Band \in {"good", "high"} => Band' \in {"good", "high"}]_facts
=============================================================================
