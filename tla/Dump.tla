-------------------------------- MODULE Dump --------------------------------
(***************************************************************************)
(* server.py:_dump: the reply of every tool as JSON, and what is made of   *)
(* one that exceeds max_response_bytes: the largest envelope that fits,    *)
(* with as long a preview of the reply as fits, found by binary search.    *)
(* A text is what a search can see of it: how many characters it has, and  *)
(* how many bytes its first k characters take inside a JSON string.        *)
(***************************************************************************)
EXTENDS Integers, FiniteSets

CONSTANTS
    Caps,       \* max_response_bytes; 0 is no limit, or no configuration yet
    Texts,      \* the replies
    Chars,      \* how many characters each has
    Cost,       \* the bytes that its first k characters take in a JSON string
    MaxDigits   \* bound on the digits of a size

\* json.dumps escapes to ASCII: a prefix never takes fewer bytes than a shorter one
ASSUME DumpAssumption ==
    /\ Caps \subseteq Nat /\ MaxDigits \in Nat
    /\ \A t \in Texts :
          /\ Chars[t] \in Nat /\ Cost[t] \in [0 .. Chars[t] -> Nat]
          /\ Cost[t][0] = 0 /\ Chars[t] <= Cost[t][Chars[t]]
          /\ \A i, j \in 0 .. Chars[t] : i <= j => Cost[t][i] <= Cost[t][j]

VARIABLES
    dumpStep,   \* "measure", "search", "done"
    cap, text,
    base,       \* the envelope: 1, 2, 3, or 0 for the reply as it is, 4 for "0"
    preview,    \* the characters of the preview, or -1 for none
    low, high,  \* the bounds of the search
    halvings    \* history: 2 to the number of probes

dumpVars == <<dumpStep, cap, text, base, preview, low, high, halvings>>

DumpInit ==
    /\ dumpStep = "measure" /\ cap \in Caps /\ text \in Texts
    /\ base = 0 /\ preview = -1
    /\ low = 0 /\ high = 0 /\ halvings = 1

-----------------------------------------------------------------------------
(* Sizes in bytes *)

\* Of a size below 10^MaxDigits
Digits(n) == Cardinality({k \in 0 .. MaxDigits - 1 : 10^k <= n})

\* {"_truncated":true,"_original_bytes":n,"_limit_bytes":n}, {"_truncated":true}, {}
Envelope == <<54 + Digits(Chars[text]) + Digits(cap), 19, 2>>

\* "preview":"", and a comma unless it is alone
Field(b) == IF b = 3 THEN 12 ELSE 13

\* An envelope with a preview of the first k characters
Rendered(b, k) == Envelope[b] + Field(b) + Cost[text][k]

Fits(size) == size <= cap

-----------------------------------------------------------------------------
(* The steps *)

EndDump(b, p) == dumpStep' = "done" /\ base' = b /\ preview' = p

Truncate(b) ==
    IF Fits(Rendered(b, 0))
    THEN /\ dumpStep' = "search" /\ base' = b /\ high' = Chars[text]
         /\ UNCHANGED <<preview, low>>
    ELSE EndDump(b, -1) /\ UNCHANGED <<low, high>>

\* The first envelope that fits, if any
Measure ==
    /\ dumpStep = "measure"
    /\ \/ /\ cap = 0 \/ Fits(Chars[text])
          /\ EndDump(0, -1) /\ UNCHANGED <<low, high>>
       \/ /\ cap > 0 /\ ~Fits(Chars[text])
          /\ \/ \E b \in 1 .. 3 :
                   /\ Fits(Envelope[b]) /\ \A a \in 1 .. b - 1 : ~Fits(Envelope[a])
                   /\ Truncate(b)
             \/ /\ \A b \in 1 .. 3 : ~Fits(Envelope[b])
                /\ EndDump(4, -1) /\ UNCHANGED <<low, high>>
    /\ UNCHANGED <<cap, text, halvings>>

MiddleDown == (low + high) \div 2   \* mutant: rounded down
Middle == (low + high + 1) \div 2

ProbeShort ==   \* mutant: cuts off one character more than does not fit
    /\ dumpStep = "search" /\ low < high
    /\ IF Fits(Rendered(base, Middle)) THEN low' = Middle /\ UNCHANGED high
                                       ELSE high' = Middle - 2 /\ UNCHANGED low
    /\ halvings' = 2 * halvings
    /\ UNCHANGED <<dumpStep, cap, text, base, preview>>

Probe ==
    /\ dumpStep = "search" /\ low < high
    /\ IF Fits(Rendered(base, Middle)) THEN low' = Middle /\ UNCHANGED high
                                       ELSE high' = Middle - 1 /\ UNCHANGED low
    /\ halvings' = 2 * halvings
    /\ UNCHANGED <<dumpStep, cap, text, base, preview>>

Found ==
    /\ dumpStep = "search" /\ low >= high
    /\ EndDump(base, low)
    /\ UNCHANGED <<cap, text, low, high, halvings>>

DumpNext == Measure \/ Probe \/ Found

DumpSpec == DumpInit /\ [][DumpNext]_dumpVars

-----------------------------------------------------------------------------
(* Properties *)

\* "The envelope itself must honor the configured byte ceiling" (server.py:163): for
\* every positive cap and every text the answer fits; and it is no shorter than it
\* must be: no longer preview would have fitted.
CapIsHonoredAndUsed ==
    dumpStep = "done" /\ cap > 0 =>
        /\ base = 0 => Fits(Chars[text])
        /\ base \in 1 .. 3 /\ preview = -1 => Fits(Envelope[base])
        /\ base \in 1 .. 3 /\ preview # -1 =>
              /\ preview \in 0 .. Chars[text] /\ Fits(Rendered(base, preview))
              /\ \A k \in preview + 1 .. Chars[text] : ~Fits(Rendered(base, k))

\* The search comes to an end: each probe at least halves what is left.
SearchHalves == halvings > 1 => (high - low) * halvings <= Chars[text] /\ low <= high
=============================================================================
