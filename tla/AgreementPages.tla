--------------------------- MODULE AgreementPages ------------------------------
(* The agreement as its two seats work on it: /agreement shows each of them the *)
(* copy of the job it last read, a signature goes to the server by the place of *)
(* a line in that copy, and the server reads the job, judges and writes the     *)
(* whole row back. JobDomain keeps the lines as a set; here they are the list   *)
(* the routes are given, where a line is known by its index to the one who      *)
(* signs it and by its words to the one who revises it. Up to the deposit.      *)
EXTENDS Naturals, Sequences, FiniteSets

CONSTANTS Texts,        \* what a line may say
          Amounts,      \* what may be asked for the work
          Windows,      \* the days a delivery may take
          DefaultWindow,
          Requests,     \* requests the server can be working on at once
          MaxLines,     \* bound: lines of an agreement
          MaxPresses,   \* bound: presses that reach the server
          None

VARIABLES row,      \* the stored job
          paid,     \* the deposit has settled
          page,     \* seat -> the job its open agreement page shows
          checkout, \* the job the buyer's open deposit page shows
          request,  \* what the server is working on
          presses,  \* how often a page has asked
          pressed,  \* history: what each seat's page showed where it pressed to sign
          behind    \* history: the seats whose signature was put on anything else

vars == <<row, paid, page, checkout, request, presses, pressed, behind>>
histories == <<presses, pressed, behind>>

Seats == {"buyer", "agent"}
OrNone(S) == S \cup {None}

Lines == UNION {[1..n -> [text : Texts, by : SUBSET Seats]] : n \in 0..MaxLines}
TextLists == UNION {[1..n -> Texts] : n \in 1..MaxLines}
Offers == [usd : Amounts, days : Windows]
Rows == [status : {"draft", "proposed", "ended"}, lines : Lines, offer : OrNone(Offers),
         offerBy : SUBSET Seats]

NewRow == [status |-> "draft", lines |-> <<>>, offer |-> None, offerBy |-> {}]

\* What a press asks: `at` is the line a signature is for, `texts` and `offer` what
\* a send carries.
Asked(kind, at, texts, offer) == [kind |-> kind, at |-> at, texts |-> texts, offer |-> offer]
Leaves == Asked("leave", 0, <<>>, None)
SignsOffer == Asked("sign-offer", 0, <<>>, None)
SignsLine(i) == Asked("sign-line", i, <<>>, None)
Sends(texts, offer) == Asked("send", 0, texts, offer)

Asks == [kind : {"leave", "sign-offer", "sign-line", "send"}, at : 0..MaxLines,
         texts : {<<>>} \cup TextLists, offer : OrNone(Offers)]

\* A request on its way has no copy of the job yet. `shown` is what its page showed there.
NoRequest == [seat |-> None, ask |-> Leaves, shown |-> None, copy |-> None]

TypeOK ==
    /\ row \in Rows /\ paid \in BOOLEAN
    /\ page \in [Seats -> OrNone(Rows)]
    /\ checkout \in OrNone(Rows)
    /\ request \in [Requests -> [seat : OrNone(Seats), ask : Asks,
                                  shown : OrNone(Texts \cup Offers), copy : OrNone(Rows)]]
    /\ presses \in 0..MaxPresses
    /\ pressed \subseteq Seats \X (Texts \cup Offers)
    /\ behind \subseteq Seats

Init ==
    /\ row = NewRow /\ paid = FALSE
    /\ page = [seat \in Seats |-> None]
    /\ checkout = None
    /\ request = [r \in Requests |-> NoRequest]
    /\ presses = 0 /\ pressed = {} /\ behind = {}

--------------------------------------------------------------------------------
(* What the server makes of a send and of a signature.                          *)

TextsOf(lines) == [i \in DOMAIN lines |-> lines[i].text]

\* Which of the lines that say the same this one is.
Occurrence(texts, i) == Cardinality({k \in 1..i : texts[k] = texts[i]})

\* A line whose words are stored keeps its signatures, wherever it moved; any
\* other line starts with none. A stored line the send leaves out is gone.
RevisedByPlace(lines, texts) ==
    [i \in DOMAIN texts |-> [text |-> texts[i],
                             by |-> IF i \in DOMAIN lines THEN lines[i].by ELSE {}]]
Revised(lines, texts) ==
    [i \in DOMAIN texts |->
        LET kept == {k \in DOMAIN lines : /\ lines[k].text = texts[i]
                                          /\ Occurrence(TextsOf(lines), k) = Occurrence(texts, i)}
        IN  [text |-> texts[i], by |-> UNION {lines[k].by : k \in kept}]]

\* The offer's signatures stand only if neither the amount nor the window changed.
Reoffered(j, offer) ==
    IF offer \in {None, j.offer} THEN j
    ELSE [j EXCEPT !.offer = offer, !.offerBy = {}]

\* Both have signed every line and the offer.
Agreed(j) ==
    /\ Len(j.lines) > 0 /\ j.offer # None /\ j.offerBy = Seats
    /\ \A i \in DOMAIN j.lines : j.lines[i].by = Seats

\* Whether the route lets `ask` through, judging the copy it read.
Allowed(j, ask, deposited) ==
    CASE ask.kind = "sign-line" -> j.status = "proposed" /\ ask.at \in DOMAIN j.lines
      [] ask.kind = "sign-offer" -> j.status = "proposed" /\ j.offer # None
      [] ask.kind = "send" -> j.status = "draft" \/ (j.status = "proposed" /\ ~deposited)
      [] ask.kind = "leave" -> j.status \in {"draft", "proposed"} /\ ~deposited

Written(j, ask, seat) ==
    CASE ask.kind = "sign-line" -> [j EXCEPT !.lines[ask.at].by = @ \cup {seat}]
      [] ask.kind = "sign-offer" -> [j EXCEPT !.offerBy = @ \cup {seat}]
      [] ask.kind = "send" -> [Reoffered(j, ask.offer) EXCEPT !.status = "proposed",
                                                             !.lines = Revised(@, ask.texts)]
      [] ask.kind = "leave" -> [j EXCEPT !.status = "ended"]

--------------------------------------------------------------------------------
(* What a page offers, from the copy it shows.                                   *)

Replaced(texts, i, text) == [texts EXCEPT ![i] = text]

\* A change of the window carries the amount and a change of the amount the window;
\* an amount set for the first time leaves the window to the server.
OtherOffers(offer) ==
    IF offer = None THEN [usd : Amounts, days : {DefaultWindow}]
    ELSE [usd : Amounts, days : {offer.days}] \cup [usd : {offer.usd}, days : Windows]

Composing(seat, j) == seat = "agent" /\ j.status = "draft"

Offered(seat, j) ==
    LET texts == TextsOf(j.lines)
        open == j.status = "proposed"
        edits == {Sends(Replaced(texts, i, text), None) : i \in DOMAIN texts, text \in Texts}
        priced == IF seat = "buyer" /\ j.offer = None THEN {}
                  ELSE {Sends(texts, offer) : offer \in OtherOffers(j.offer)}
        added == {Sends(Append(texts, text), None) :
                     text \in {t \in Texts : Len(texts) < MaxLines}}
    IN  {SignsLine(i) : i \in {k \in DOMAIN j.lines : seat \notin j.lines[k].by /\ ~Composing(seat, j)}}
        \cup (IF j.offer # None /\ seat \notin j.offerBy THEN {SignsOffer} ELSE {})
        \cup (IF open THEN edits \cup priced ELSE {})
        \cup (IF open \/ (seat = "buyer" /\ j.status = "draft") THEN added ELSE {})
        \cup (IF j.status \in {"draft", "proposed"} /\ ~Composing(seat, j) THEN {Leaves} ELSE {})

--------------------------------------------------------------------------------
(* The two seats and the server.                                                 *)

\* Opening or reloading the page.
Open(seat) ==
    /\ page[seat] # row
    /\ page' = [page EXCEPT ![seat] = row]
    /\ UNCHANGED <<row, paid, checkout, request, histories>>

\* What a copy of the job holds where a signature is put.
SignedAt(j, ask) ==
    CASE ask.kind = "sign-line" -> j.lines[ask.at].text
      [] ask.kind = "sign-offer" -> j.offer

Signs(ask) == ask.kind \in {"sign-line", "sign-offer"}

\* A press. The request names a line by its place and an offer by nothing at all.
Sent(r, seat, ask) ==
    LET shown == IF Signs(ask) THEN SignedAt(page[seat], ask) ELSE None
    IN  /\ request[r] = NoRequest
        /\ presses < MaxPresses
        /\ presses' = presses + 1
        /\ request' = [request EXCEPT ![r] =
                          [seat |-> seat, ask |-> ask, shown |-> shown, copy |-> None]]
        /\ pressed' = pressed \cup (IF Signs(ask) THEN {<<seat, shown>>} ELSE {})
        /\ UNCHANGED <<row, paid, page, checkout, behind>>

Shown(seat) == IF page[seat] = None THEN {} ELSE Offered(seat, page[seat])
Press(r, seat) == \E ask \in Shown(seat) : Sent(r, seat, ask)

\* The owner's first quote, written in the composer a draft shows.
SendQuote(r) ==
    /\ page["agent"] # None /\ Composing("agent", page["agent"])
    /\ \E texts \in TextLists, offer \in Offers : Sent(r, "agent", Sends(texts, offer))

\* The press reaches the server, whose handler reads the job. What it finds there, and
\* not what the page showed, is what the press signs.
Reaches(r) ==
    /\ request[r].seat # None /\ request[r].copy = None
    /\ request' = [request EXCEPT ![r].copy = row]
    /\ UNCHANGED <<row, paid, page, checkout, histories>>

End(r) == request' = [request EXCEPT ![r] = NoRequest]

\* The whole row is written from the copy the handler read, and the answer draws the
\* page anew unless it is lost on its way. Leaving the agreement leaves the page.
Answer(r, arrives) ==
    LET seat == request[r].seat
        ask == request[r].ask
        copy == request[r].copy
        after == Written(copy, ask, seat)
    IN  /\ seat # None /\ copy # None
        /\ Allowed(copy, ask, paid)
        /\ row' = after
        /\ page' = IF ~arrives THEN page
                   ELSE [page EXCEPT ![seat] = IF ask.kind = "leave" THEN None ELSE after]
        /\ End(r)
        /\ behind' = IF Signs(ask) /\ SignedAt(copy, ask) # request[r].shown
                     THEN behind \cup {seat} ELSE behind
        /\ UNCHANGED <<paid, checkout, presses, pressed>>

\* A refusal, a failed read or write: the page is left as it was.
Refuse(r) ==
    /\ request[r].seat # None
    /\ End(r)
    /\ UNCHANGED <<row, paid, page, checkout, histories>>

\* /deposit, linked from an agreement that shows as fully agreed: it reads the job
\* anew and opens its payment only on one that is.
OpenDeposit ==
    /\ page["buyer"] # None /\ page["buyer"].status = "proposed" /\ Agreed(page["buyer"])
    /\ row.status = "proposed" /\ Agreed(row)
    /\ checkout # row
    /\ checkout' = row
    /\ UNCHANGED <<row, paid, page, request, histories>>

\* The payment the buyer made there settles: the routes ask for a proposed job with
\* a price, and not who has signed.
DepositSettles ==
    /\ checkout # None
    /\ ~paid
    /\ row.status = "proposed" /\ row.offer # None
    /\ paid' = TRUE
    /\ UNCHANGED <<row, page, checkout, request, histories>>

Next ==
    \/ \E seat \in Seats : Open(seat)
    \/ \E r \in Requests, seat \in Seats : Press(r, seat)
    \/ \E r \in Requests : SendQuote(r) \/ Reaches(r)
    \/ \E r \in Requests, arrives \in BOOLEAN : Answer(r, arrives)
    \/ \E r \in Requests : Refuse(r)
    \/ OpenDeposit
    \/ DepositSettles

Spec == Init /\ [][Next]_vars

--------------------------------------------------------------------------------
(* Properties.                                                                  *)

\* Every mark of a seat is on words, or on an offer, that it pressed on as its page showed
\* them.
Meant(seat) ==
    /\ \A i \in DOMAIN row.lines :
           seat \in row.lines[i].by => <<seat, row.lines[i].text>> \in pressed
    /\ seat \in row.offerBy => <<seat, row.offer>> \in pressed

\* So are the marks of a seat whose signatures all landed on what its page showed: changing
\* a line clears both signatures on it, however the list was reordered, revised from an old
\* page or written from a copy that another request had overtaken (proposeCriteria,
\* acceptCriterion).
MarksStandOnTheirWords == \A seat \in Seats \ behind : Meant(seat)
================================================================================
