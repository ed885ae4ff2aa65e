----------------------------- MODULE OfferWords ------------------------------
(***************************************************************************)
(* The words in which portals state the seniority and the forms of         *)
(* contract of an offer, and the levels and employment types that each     *)
(* strategy makes of them: a table for each, from a word to none or one.   *)
(* A word stands for all that the strategy takes alike; other, for those   *)
(* it does not know.                                                       *)
(***************************************************************************)
EXTENDS Naturals, FiniteSets

CONSTANT MaxWords  \* bound on the words that a portal states at once

-----------------------------------------------------------------------------
(* mapLevel, mapLevels, mapSeniority *)

\* Whether experience is asked for, not how much.
OlxLevels == [inexperienced |-> {}, experienced |-> {"MID"}]

\* Faulty variant, not part of the specification: one name was not foreseen.
JjitLevels_NoCLevel ==
  [junior |-> {"JUNIOR"}, mid |-> {"MID"}, senior |-> {"SENIOR"},
   c_level |-> {"MID"}, expert |-> {"LEAD"}, other |-> {"MID"}]

\* What is not known is MID.
JjitLevels ==
  [junior |-> {"JUNIOR"}, mid |-> {"MID"}, senior |-> {"SENIOR"},
   c_level |-> {"LEAD"}, expert |-> {"LEAD"}, other |-> {"MID"}]

PracujPlLevels ==
  [trainee |-> {"INTERN"}, junior |-> {"JUNIOR"}, specialist |-> {"MID"},
   senior |-> {"SENIOR"}, expert |-> {"LEAD"}, manager |-> {"LEAD"}, other |-> {}]

\* What is not known is MID.
BulldogLevels ==
  [intern |-> {"INTERN"}, trainee |-> {"INTERN"}, junior |-> {"JUNIOR"}, mid |-> {"MID"},
   senior |-> {"SENIOR"}, lead |-> {"LEAD"}, expert |-> {"LEAD"}, other |-> {"MID"}]

\* An internship is for a junior, and what is mid or senior is SENIOR.
LinkedInLevels ==
  [internship |-> {"JUNIOR"}, entry |-> {"JUNIOR"}, associate |-> {"JUNIOR"},
   mid_senior |-> {"SENIOR"}, director |-> {"LEAD"}, executive |-> {"LEAD"}, other |-> {}]

NfjLevels ==
  [junior |-> {"JUNIOR"}, mid |-> {"MID"}, senior |-> {"SENIOR"},
   expert |-> {"LEAD"}, lead |-> {"LEAD"}, manager |-> {"LEAD"}, other |-> {}]

\* No level is read from TheProtocol.
LevelTable(p) ==
  CASE p = "olx" -> OlxLevels
    [] p = "justjoinit" -> JjitLevels
    [] p = "pracujpl" -> PracujPlLevels
    [] p = "bulldogjob" -> BulldogLevels
    [] p = "theprotocol" -> << >>
    [] p = "linkedin" -> LinkedInLevels
    [] p = "nofluffjobs" -> NfjLevels

-----------------------------------------------------------------------------
(* mapEmployment, mapEmploymentType *)

\* The three that all strategies but LinkedIn's know by name.
Contracts == [permanent |-> {"PERMANENT"}, b2b |-> {"B2B"}, mandate |-> {"MANDATE"}]
ContractsAnd(table) ==
  [w \in DOMAIN Contracts \cup DOMAIN table |->
     IF w \in DOMAIN Contracts THEN Contracts[w] ELSE table[w]]

OlxForms == ContractsAnd([specific_work |-> {"OTHER"}, internship |-> {"INTERNSHIP"}, other |-> {}])

\* What is not known is OTHER.
JjitForms == ContractsAnd([specific_work |-> {"OTHER"}, internship |-> {"OTHER"}, other |-> {"OTHER"}])

PracujPlForms == ContractsAnd([specific_work |-> {"OTHER"}, other |-> {}])

\* Three flags.
BulldogForms == [permanent |-> {"PERMANENT"}, b2b |-> {"B2B"}, other |-> {"OTHER"}]

TheProtocolForms == ContractsAnd([specific_work |-> {"OTHER"}, other |-> {}])

LinkedInForms ==
  [full_time |-> {"PERMANENT"}, contract |-> {"B2B"}, part_time |-> {"OTHER"},
   internship |-> {"OTHER"}, temporary |-> {"OTHER"}, other |-> {}]

NfjForms == ContractsAnd([other |-> {}])

FormTable(p) ==
  CASE p = "olx" -> OlxForms
    [] p = "justjoinit" -> JjitForms
    [] p = "pracujpl" -> PracujPlForms
    [] p = "bulldogjob" -> BulldogForms
    [] p = "theprotocol" -> TheProtocolForms
    [] p = "linkedin" -> LinkedInForms
    [] p = "nofluffjobs" -> NfjForms

-----------------------------------------------------------------------------
\* The words of a table that may be stated at once.
Stated(table, several) ==
  {ws \in SUBSET DOMAIN table : Cardinality(ws) <= IF several THEN MaxWords ELSE 1}

\* Two strategies read several levels, and all but LinkedIn's several forms.
WordsOf(p) ==
  [levels : Stated(LevelTable(p), p \in {"pracujpl", "nofluffjobs"}),
   forms : Stated(FormTable(p), p # "linkedin")]

NoWords == [levels |-> {}, forms |-> {}]

\* What the strategy of p makes of words.
Reading(p, words) ==
  [levels |-> UNION {LevelTable(p)[w] : w \in words.levels},
   forms |-> UNION {FormTable(p)[w] : w \in words.forms}]

-----------------------------------------------------------------------------
(* What the words mean, whoever says them. *)

LevelSense ==
  [intern |-> {"INTERN"}, trainee |-> {"INTERN"}, internship |-> {"INTERN"},
   entry |-> {"INTERN", "JUNIOR"}, associate |-> {"JUNIOR", "MID"},
   junior |-> {"JUNIOR"}, mid |-> {"MID"}, specialist |-> {"MID"},
   mid_senior |-> {"MID", "SENIOR"}, senior |-> {"SENIOR"},
   expert |-> {"LEAD"}, lead |-> {"LEAD"}, manager |-> {"LEAD"}, c_level |-> {"LEAD"},
   director |-> {"LEAD"}, executive |-> {"LEAD"},
   inexperienced |-> {"INTERN", "JUNIOR"}, experienced |-> {"MID", "SENIOR", "LEAD"}]

FormSense ==
  [permanent |-> {"PERMANENT"}, full_time |-> {"PERMANENT"},
   b2b |-> {"B2B"}, contract |-> {"B2B"}, mandate |-> {"MANDATE"},
   specific_work |-> {"OTHER"}, internship |-> {"INTERNSHIP", "OTHER"},
   part_time |-> {"OTHER"}, temporary |-> {"OTHER"}]

\* ls fits what ws mean: each word that means something is met, and nothing
\* is there that no word means.
Fits(ls, ws, sense) ==
  LET known == ws \cap DOMAIN sense
  IN  /\ \A w \in known : ls \cap sense[w] # {}
      /\ ws = known => ls \subseteq UNION {sense[w] : w \in known}
=============================================================================
