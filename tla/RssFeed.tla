------------------------------- MODULE RssFeed --------------------------------
(***************************************************************************)
(* The feed parser of the news and internet gateways                       *)
(* (gateway/local-services/rss-feed.ts) on the content of an RSS channel,  *)
(* as a sequence of tokens: the tags of items and titles, the two CDATA    *)
(* marks and text. What the parser does by repeated searches that jump     *)
(* over CDATA sections is checked against a scanner that reads each token  *)
(* once. The other fields of an item are handled as the title is.          *)
(***************************************************************************)
EXTENDS Naturals, SequencesExt, FiniteSets

CONSTANTS MaxItems,  \* MAX_ITEMS_PER_FEED
          Seeds,     \* what the feeds begin with
          MaxMore    \* bound on the tokens that follow

VARIABLE xml

Token == {"<item>", "</item>", "<title>", "</title>", "<![CDATA[", "]]>", "text"}

Undefined == "undefined"
Least(S) == CHOOSE n \in S : \A k \in S : n <= k
IndexOf(s, tok, from) == {i \in from..Len(s) : s[i] = tok}

------------------------------------------------------------------------------
(* Searching *)

(* findCdataSpans: [start, end) of each section, to the end when unclosed *)
FindCdataSpans(s) ==
  LET Starts(i) == IndexOf(s, "<![CDATA[", i)
      spans[i \in 1..(Len(s) + 1)] ==
        IF Starts(i) = {} THEN {}
        ELSE LET start == Least(Starts(i))
                 ends == IndexOf(s, "]]>", start + 1)
             IN  IF ends = {} THEN {<<start, Len(s) + 1>>}
                 ELSE {<<start, Least(ends) + 1>>} \cup spans[Least(ends) + 1]
  IN  spans[1]

(* findSpanContaining *)
FindSpanContaining(i, spans) == {sp \in spans : sp[1] <= i /\ i < sp[2]}

\* Mutant: the first match counts, inside a section or not.
ExecAnywhere(tok, s, from, spans) ==
  IF IndexOf(s, tok, from) = {} THEN 0 ELSE Least(IndexOf(s, tok, from))

(* execOutsideCdata: from a match inside a section on to the section's end *)
ExecOutsideCdata(tok, s, from, spans) ==
  LET exec[i \in 1..(Len(s) + 1)] ==
        LET found == IndexOf(s, tok, i)
        IN  IF found = {} THEN 0
            ELSE IF FindSpanContaining(Least(found), spans) = {} THEN Least(found)
            ELSE exec[(CHOOSE sp \in FindSpanContaining(Least(found), spans) : TRUE)[2]]
  IN  IF from > Len(s) THEN 0 ELSE exec[from]

(* findClosingTag: 0 for none *)
FindClosingTag(s, from, close, spans) == ExecOutsideCdata(close, s, from, spans)

(* extractTagContent *)
ExtractTagContent(s, open, close) ==
  LET spans == FindCdataSpans(s)
      o == ExecOutsideCdata(open, s, 1, spans)
      c == FindClosingTag(s, o + 1, close, spans)
  IN  IF o = 0 \/ c = 0 THEN Undefined ELSE SubSeq(s, o + 1, c - 1)

(* matchAllTagBlocks *)
MatchAllTagBlocks(s) ==
  LET spans == FindCdataSpans(s)
      blocks[from \in 1..(Len(s) + 1)] ==
        LET o == ExecOutsideCdata("<item>", s, from, spans)
            c == FindClosingTag(s, o + 1, "</item>", spans)
        IN  IF o = 0 \/ c = 0 THEN <<>> ELSE <<<<o, c>>>> \o blocks[c + 1]
  IN  blocks[1]

------------------------------------------------------------------------------
(* Decoding and items *)

(* decodeText: the marks of a section go, what it holds stays *)
DecodeText(s) ==
  LET text[i \in 1..(Len(s) + 1)] ==
        LET starts == IndexOf(s, "<![CDATA[", i)
        IN  IF starts = {} THEN SubSeq(s, i, Len(s))
            ELSE LET start == Least(starts)
                     ends == IndexOf(s, "]]>", start + 1)
                 IN  SubSeq(s, i, start - 1) \o
                     (IF ends = {} THEN SubSeq(s, start + 1, Len(s))
                      ELSE SubSeq(s, start + 1, Least(ends) - 1) \o text[Least(ends) + 1])
  IN  text[1]

(* decodeOrUndefined *)
DecodeOrUndefined(raw) ==
  IF raw = Undefined THEN Undefined
  ELSE IF DecodeText(raw) = <<>> THEN Undefined ELSE DecodeText(raw)

(* parseRssItem *)
ParseRssItem(block) == DecodeOrUndefined(ExtractTagContent(block, "<title>", "</title>"))

\* Mutant: an item without a title is left out of the feed.
ParseSome(s) ==
  LET block(b) == SubSeq(s, b[1], b[2])
      blocks == MatchAllTagBlocks(s)
      good == SelectSeq(SubSeq(blocks, 1, IF Len(blocks) <= MaxItems THEN Len(blocks) ELSE MaxItems), LAMBDA b : ParseRssItem(block(b)) # Undefined)
  IN  [ok |-> TRUE, items |-> [i \in DOMAIN good |-> ParseRssItem(block(good[i]))]]

(* parseRssChannel, parseFeed: the first MaxItems items are read, and one *)
(* malformed among them invalidates the feed                              *)
ParseFeed(s) ==
  LET blocks == MatchAllTagBlocks(s)
      items == [i \in {n \in DOMAIN blocks : n <= MaxItems} |-> ParseRssItem(SubSeq(s, blocks[i][1], blocks[i][2]))]
  IN  IF \E i \in DOMAIN items : items[i] = Undefined THEN [ok |-> FALSE, items |-> <<>>]
      ELSE [ok |-> TRUE, items |-> items]

------------------------------------------------------------------------------
(* The scanner: each token once, left to right *)

Start == [cdata |-> FALSE, item |-> FALSE, title |-> "none", text |-> <<>>, items |-> <<>>, ok |-> TRUE]

(* A piece of text: kept while the title of an item is being read *)
Read(st, tok) == IF st.title = "open" THEN [st EXCEPT !.text = Append(@, tok)] ELSE st

Scan(st, tok) ==
  CASE st.cdata -> IF tok = "]]>" THEN [st EXCEPT !.cdata = FALSE] ELSE Read(st, tok)
    [] tok = "<![CDATA[" -> [st EXCEPT !.cdata = TRUE]
    [] tok = "<item>" /\ ~st.item -> [st EXCEPT !.item = TRUE, !.title = "none", !.text = <<>>]
    [] tok = "</item>" /\ st.item /\ Len(st.items) = MaxItems -> [st EXCEPT !.item = FALSE, !.title = "none"]
    [] tok = "</item>" /\ st.item ->
         IF st.title = "closed" /\ st.text # <<>>
           THEN [st EXCEPT !.item = FALSE, !.title = "none", !.items = Append(@, st.text)]
           ELSE [st EXCEPT !.item = FALSE, !.title = "none", !.ok = FALSE]
    [] tok = "<title>" /\ st.item /\ st.title = "none" -> [st EXCEPT !.title = "open"]
    [] tok = "</title>" /\ st.title = "open" -> [st EXCEPT !.title = "closed"]
    [] OTHER -> Read(st, tok)

Scanned(s) ==
  LET scan[i \in 0..Len(s)] ==
        IF i = 0 THEN Start ELSE CHOOSE r \in {Scan(st, s[i]) : st \in {scan[i - 1]}} : TRUE
  IN  scan[Len(s)]

------------------------------------------------------------------------------
Init == xml \in Seeds

(* Any feed of up to MaxMore tokens after one of the beginnings *)
Next ==
  \E s \in Seeds, tok \in Token :
    /\ IsPrefix(s, xml) /\ Len(xml) < Len(s) + MaxMore
    /\ xml' = Append(xml, tok)

Spec == Init /\ [][Next]_xml

------------------------------------------------------------------------------
(* The searches of parseFeed() find exactly the items, with exactly the      *)
(* titles, that reading the feed once would find, and refuse the feed if and *)
(* only if an item lacks its title: no tag inside a CDATA section, closed or *)
(* not, opens or closes anything.                                            *)
ParsesAsScanned ==
  LET st == Scanned(xml)
  IN  ParseFeed(xml) = (IF st.ok THEN [ok |-> TRUE, items |-> st.items] ELSE [ok |-> FALSE, items |-> <<>>])
==============================================================================
