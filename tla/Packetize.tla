----------------------------- MODULE Packetize -----------------------------
(***************************************************************************)
(* The packetizer, zorkbot/packetize.py: words are packed greedily into    *)
(* packets that leave room for a "(index/total) " prefix, whose length     *)
(* depends on how many packets there are, so the packing is repeated until *)
(* their number is stable.  A text is the sequence of the lengths of its   *)
(* words (or of its lines, for pack_lines); a packet is its length and its *)
(* first and last word.                                                    *)
(***************************************************************************)
EXTENDS Integers, Sequences

CONSTANTS
    Texts,     \* bound: the texts, sequences of lengths
    Leads,     \* bound: lengths of what stands in front of the body
    MaxChars   \* packet_max_chars

ASSUME PacketizeAssumption ==
    /\ Leads \subseteq Nat /\ MaxChars \in Nat
    /\ Texts \subseteq Seq(Nat \ {0})
    /\ \A t \in Texts : Len(t) < 1000  \* so that a count has three digits at most

VARIABLES
    text,
    lead,     \* of the first packet: mention, first line and title
    mention,  \* the part of it that every packet has
    mode,     \* "prose" (numbered), "plain" (not numbered) or "lines" (pack_lines)
    room,     \* the limit of the packing under way
    word,     \* the next word to pack
    chunks,   \* the packets so far, without prefixes: [len, from, to]
    total,    \* how many packets the packing before made; 0 before the first
    rounds,   \* history: how often the text was packed again
    stage     \* "start", "pack", "done" or "raised"

packVars == <<text, lead, mention, mode, room, word, chunks, total, rounds, stage>>

PackInit ==
    /\ text \in Texts /\ lead \in Leads
    /\ mention \in {k \in Leads : k <= lead}
    /\ mode \in {"prose", "plain", "lines"}
    /\ mode = "lines" => lead = 0 /\ Len(text) < 99
    /\ chunks = <<>>
    /\ room = 0 /\ word = 1 /\ total = 0 /\ rounds = 0
    /\ stage = "start"

Digits(n) == IF n < 10 THEN 1 ELSE IF n < 100 THEN 2 ELSE 3
AtLeastOne(n) == IF n < 1 THEN 1 ELSE n

\* len(f"({index}/{total}) ")
PrefixLen(index, count) == 4 + Digits(index) + Digits(count)

\* Bug: room for one digit only.
SequencePrefixLenShort(count) == PrefixLen(1, 1)

\* _sequence_prefix_len
SequencePrefixLen(count) == PrefixLen(count, count)

\* What packetize leaves to the body.
Limit == MaxChars - lead

\* _pack_with_sequence_budget up to its first packing, or pack_lines.  Without a
\* body the lead is all there is, and without room for one ValueError is raised.
PackBegin ==
    LET reserve == IF mode = "plain" THEN 0 ELSE SequencePrefixLen(99) IN
    /\ stage = "start"
    /\ stage' = IF text = <<>> THEN "done" ELSE IF Limit <= 0 THEN "raised" ELSE "pack"
    /\ room' = IF mode = "lines" THEN Limit - reserve ELSE AtLeastOne(Limit - reserve)
    /\ UNCHANGED <<text, lead, mention, mode, word, chunks, total, rounds>>

\* The loop of _pack_words, and of pack_lines: words and lines are joined by one
\* character.
PackWord ==
    LET n == Len(chunks) IN
    /\ stage = "pack"
    /\ word <= Len(text)
    /\ chunks' = IF n > 0 /\ chunks[n].len + 1 + text[word] <= room
                 THEN [chunks EXCEPT ![n] = [len |-> @.len + 1 + text[word], from |-> @.from, to |-> word]]
                 ELSE Append(chunks, [len |-> text[word], from |-> word, to |-> word])
    /\ word' = word + 1
    /\ UNCHANGED <<text, lead, mention, mode, room, total, rounds, stage>>

\* A packing ends: it is final if nothing is numbered or the number of packets
\* is the one its prefixes were made for.
PackEnd ==
    LET n == Len(chunks) IN
    /\ stage = "pack"
    /\ word > Len(text)
    /\ IF mode # "prose" \/ (total = 0 /\ n <= 1) \/ n = total
       THEN /\ stage' = "done"
            /\ UNCHANGED <<room, word, chunks, total, rounds>>
       ELSE /\ room' = AtLeastOne(Limit - SequencePrefixLen(n))
            /\ total' = n
            /\ rounds' = rounds + 1
            /\ chunks' = <<>> /\ word' = 1
            /\ UNCHANGED stage
    /\ UNCHANGED <<text, lead, mention, mode>>

PackNext == PackBegin \/ PackWord \/ PackEnd

PackSpec == PackInit /\ [][PackNext]_packVars

\* The packets as sent: add_sequence_prefixes, with the help text's fixed first
\* packet in front of lines, the mention on all and the lead on the first.
Numbered == IF mode = "lines" THEN Len(chunks) + 1 ELSE Len(chunks)
PacketLen(i) ==
    chunks[i].len + (IF i = 1 THEN lead ELSE mention)
        + (IF mode = "plain" \/ Numbered <= 1 THEN 0
           ELSE PrefixLen(i + Numbered - Len(chunks), Numbered))

-----------------------------------------------------------------------------
(* Properties. *)

\* The loop settles after at most two rounds although a longer prefix can make
\* more packets and a shorter one fewer; no word is lost, and every packet
\* respects packet_max_chars with its final prefix, except one that holds a
\* single word.
PackedWell ==
    /\ rounds <= 2
    /\ stage = "done" =>
          /\ text # <<>> => chunks[1].from = 1 /\ chunks[Len(chunks)].to = Len(text)
          /\ \A i \in 2..Len(chunks) : chunks[i].from = chunks[i - 1].to + 1
          /\ \A i \in DOMAIN chunks :
                PacketLen(i) <= MaxChars \/ chunks[i].from = chunks[i].to
=============================================================================
