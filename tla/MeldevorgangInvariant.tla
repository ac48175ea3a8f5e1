------------------------- MODULE MeldevorgangInvariant -------------------------
(***************************************************************************)
(* The inductive invariant of Meldevorgang: MeldeInv, which always holds,  *)
(* and SentInv, which holds as long as no Vorgang begins over attachments  *)
(* that an earlier one has sent.                                           *)
(***************************************************************************)
EXTENDS Meldevorgang

ZeileTyp == [v : Vorgaenge \union {0}, gesendet : BOOLEAN, token : Anfragen \union {0},
             lease : BOOLEAN]

AnlageTyp == [stand : {"keine", "gebunden", "zugeordnet", "frei", "freiKanzlei"},
              ereignis : Vorgaenge \union {0}]

AnfrageTyp == [pc : {"aus", "zaehlt", "beginnt", "loestAuf", "wiederholt", "uebernimmt",
                     "legtAb", "raeumt", "ruft", "wartet", "schliesst", "ende"},
               v : Vorgaenge \union {0}, mit : BOOLEAN, erste : BOOLEAN,
               ausgang : {"keiner", "nieGesendet", "abgelehnt", "ungeklaert", "offen",
                          "angenommen"},
               ereignis : Vorgaenge \union {0}]

TypeInv ==
  /\ zeile \in ZeileTyp
  /\ alter \in [Vorgaenge -> {"ungesendet", "fenster", "zu", "spaet"}]
  /\ anlage \in [Anfragen -> AnlageTyp]
  /\ anfrage \in [Anfragen -> AnfrageTyp]
  /\ post \in [Anfragen -> {"keine", "unterwegs", "abgelehnt", "abweichung", "angenommen"}]
  /\ inhalt \in [Vorgaenge -> SUBSET Anfragen]
  /\ kennt \in Vorgaenge \union {0}
  /\ ereignisse \in [Vorgaenge -> Nat]
  /\ kanzlei \in [pc : {"ruht", "fragt", "gibtFrei"}, r : Anfragen \union {0}]
  /\ begonnen \in 0..MaxVorgaenge
  /\ frueh \subseteq Vorgaenge

\* A Vorgang is begun once, and sent once, by a row of its own.
ZeileInv ==
  /\ zeile.v = 0 => ~ zeile.gesendet /\ zeile.token = 0 /\ ~ zeile.lease
  /\ zeile.v # 0 => (zeile.gesendet <=> alter[zeile.v] # "ungesendet")
  /\ zeile.lease => zeile.token # 0
  /\ zeile.v <= begonnen
  /\ \A v \in Vorgaenge :
       /\ v > begonnen => alter[v] = "ungesendet"
       /\ alter[v] = "ungesendet" => inhalt[v] = {} /\ ereignisse[v] = 0

\* Where a request stands, and what it has under way.
AnfrageStimmt(r) ==
  /\ anfrage[r].v <= begonnen
  /\ anfrage[r].pc \in {"loestAuf", "wiederholt", "uebernimmt", "legtAb", "ruft", "wartet"} =>
       anfrage[r].v # 0
  /\ anfrage[r].pc \notin {"raeumt", "schliesst"} => anfrage[r].ausgang = "keiner"
  /\ anfrage[r].pc = "raeumt" => anfrage[r].ausgang \in {"keiner", "nieGesendet"}
  /\ anfrage[r].ausgang = "abgelehnt" => anfrage[r].erste
  /\ anfrage[r].erste => anfrage[r].pc \in {"ruft", "wartet", "schliesst"}
  /\ anlage[r].stand # "keine" =>
       anfrage[r].pc \in {"legtAb", "raeumt", "ruft", "wartet", "schliesst", "ende"}
  /\ anlage[r].stand = "zugeordnet" <=> anlage[r].ereignis # 0
  /\ post[r] \in {"abgelehnt", "abweichung", "angenommen"} => anfrage[r].pc = "wartet"
  /\ post[r] = "unterwegs" =>
       \/ anfrage[r].pc \in {"wartet", "ende"}
       \/ anfrage[r].pc = "schliesst" /\ anfrage[r].ausgang = "offen"

AnfrageInv == \A r \in Anfragen : AnfrageStimmt(r)

\* A message that may still be accepted is one of a Vorgang whose key the Tax-CMS
\* has not forgotten since.
Unterwegs(r) == anfrage[r].pc \in {"ruft", "wartet"} \/ post[r] = "unterwegs"

Traegt(r) ==
  LET e == anfrage[r].ereignis
      v == anfrage[r].v
  IN /\ e # 0 /\ ereignisse[e] > 0
     /\ v # 0 /\ alter[v] # "ungesendet" /\ inhalt[e] = inhalt[v]

EreignisInv ==
  /\ kennt # 0 => ereignisse[kennt] > 0
  /\ \A v \in Vorgaenge :
       /\ ereignisse[v] <= 1
       /\ ereignisse[v] > 0 /\ alter[v] # "spaet" => kennt = v

RufStimmt(r) ==
  /\ Unterwegs(r) => anfrage[r].v # 0 /\ alter[anfrage[r].v] \in {"fenster", "zu"}
  /\ post[r] = "angenommen" \/ anfrage[r].ausgang = "angenommen" => Traegt(r)

RufInv == \A r \in Anfragen : RufStimmt(r)

\* A request sends its own attachment, once and for one Vorgang, and one that is
\* open outlives the row only when nothing can be sent any more or too early.
AnlageStimmt(r) ==
  /\ \A v \in Vorgaenge :
       r \in inhalt[v] =>
         /\ anfrage[r].v = v /\ anfrage[r].pc \in {"ruft", "wartet", "schliesst", "ende"}
         /\ anlage[r].stand # "keine"
         /\ anlage[r].stand = "gebunden" /\ v \notin frueh => zeile.v = v \/ alter[v] = "spaet"
         /\ anlage[r].stand = "freiKanzlei" /\ v \notin frueh =>
              alter[v] = "spaet" /\ ereignisse[v] = 0
  /\ anfrage[r].pc = "legtAb" /\ zeile.v = anfrage[r].v /\ ~ zeile.gesendet =>
       anlage[r].stand \in {"keine", "gebunden"}

AnlageInv == \A r \in Anfragen : AnlageStimmt(r)

\* Whoever has sent first and still has the row is the only one to have sent.
Ungehoert(r) ==
  /\ Eigen(r) /\ anfrage[r].erste
  /\ \/ anfrage[r].pc = "ruft"
     \/ anfrage[r].pc = "wartet" /\ post[r] \in {"unterwegs", "abgelehnt"}
     \/ anfrage[r].pc = "schliesst" /\ anfrage[r].ausgang = "abgelehnt"

ErsterStimmt(r) ==
  Ungehoert(r) =>
    /\ ereignisse[anfrage[r].v] = 0
    /\ \A q \in Anfragen \ {r} :
         anfrage[q].v = anfrage[r].v => anfrage[q].pc # "ruft" /\ post[q] # "unterwegs"

ErsterInv == \A r \in Anfragen : ErsterStimmt(r)

\* What the staff have asked for has been decided since.
KanzleiInv ==
  kanzlei.pc # "ruht" =>
    /\ kanzlei.r # 0 /\ anlage[kanzlei.r].stand # "keine"
    /\ anfrage[kanzlei.r].pc = "legtAb" => zeile.v # anfrage[kanzlei.r].v \/ zeile.gesendet
    /\ \A v \in Vorgaenge :
         kanzlei.r \in inhalt[v] /\ v \notin frueh =>
           alter[v] = "spaet" /\ (kanzlei.pc = "gibtFrei" => ereignisse[v] = 0)

MeldeInv ==
  /\ TypeInv /\ ZeileInv /\ AnfrageInv /\ EreignisInv /\ RufInv /\ AnlageInv /\ ErsterInv
  /\ KanzleiInv

-----------------------------------------------------------------------------
\* Nothing of a Vorgang will ever reach the Tax-CMS.
Tot(v) ==
  /\ ereignisse[v] = 0 /\ zeile.v # v
  /\ \A q \in Anfragen : anfrage[q].v = v => anfrage[q].pc # "ruft" /\ post[q] # "unterwegs"

SentStimmt(r) ==
  \A v \in Vorgaenge :
    r \in inhalt[v] =>
      /\ anlage[r].stand = "gebunden" /\ zeile.v # 0 => zeile.v = v
      /\ anlage[r].stand = "frei" => Tot(v)
      /\ anlage[r].stand = "zugeordnet" => anlage[r].ereignis = v /\ ereignisse[v] > 0

SentInv == \A r \in Anfragen : SentStimmt(r)
===============================================================================
