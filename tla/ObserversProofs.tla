-------------------------- MODULE ObserversProofs --------------------------
(***************************************************************************)
(* Proofs about Observers, for any number of blocks and of listeners: the  *)
(* blocks are announced in their order, and no event is sent to a channel  *)
(* that is closed.                                                         *)
(***************************************************************************)
EXTENDS Observers, SequenceTheorems, TLAPS

(* The blocks on their way, as one sequence cut in four: h is handled, c   *)
(* in the channel, t in the hands of pushAndWait and b in the buffer.      *)
Short(s) == s \in Seq(Nat) /\ Len(s) =< 1

Total(h, c, t, b) == Len(h) + Len(c) + Len(t) + Len(b)

Ordered(h, c, t, b) ==
    /\ \A i \in 1..Len(h) : h[i] = i
    /\ Len(c) = 1 => c[1] = Len(h) + 1
    /\ Len(t) = 1 => t[1] = Len(h) + Len(c) + 1
    /\ \A i \in 1..Len(b) : b[i] = Len(h) + Len(c) + Len(t) + i

LEMMA ShortSeq ==
  ASSUME NEW c \in Seq(Nat), Len(c) =< 1
  PROVE  /\ Len(c) \in Nat /\ (c = << >> \/ Len(c) = 1) /\ (c # << >> <=> Len(c) = 1)
         /\ Len(c) = 1 => Head(c) = c[1] /\ c[1] \in Nat
<1>1. Len(c) \in Nat /\ (Len(c) = 0 \/ Len(c) = 1)
  <2> DEFINE n == Len(c)
  <2>1. n \in Nat
    OBVIOUS
  <2>2. n =< 1
    OBVIOUS
  <2> HIDE DEF n
  <2>3. n = 0 \/ n = 1
    BY <2>1, <2>2
  <2> QED
    BY <2>1, <2>3 DEF n
<1>2. c = << >> <=> Len(c) = 0
  OBVIOUS
<1>3. ASSUME Len(c) = 1 PROVE Head(c) = c[1] /\ c[1] \in Nat
  <2>1. 1 \in 1..Len(c) /\ c # << >>
    BY <1>2, <1>3
  <2> QED
    BY <2>1
<1> QED
  BY <1>1, <1>2, <1>3

LEMMA ShortCases ==
  ASSUME NEW c, Short(c)
  PROVE  /\ Len(c) \in Nat /\ (c = << >> \/ Len(c) = 1) /\ (c # << >> <=> Len(c) = 1)
         /\ Len(c) = 1 => Head(c) = c[1] /\ c[1] \in Nat
  BY ShortSeq DEF Short

LEMMA ShortEmpty == Short(<< >>) /\ Len(<< >>) = 0
  BY DEF Short

LEMMA OrderedBuffer ==
  ASSUME NEW h \in Seq(Nat), NEW c, NEW t, NEW b \in Seq(Nat), NEW s \in Nat, Short(c), Short(t),
         Ordered(h, c, t, b), s = Total(h, c, t, b) + 1
  PROVE  /\ Append(b, s) \in Seq(Nat) /\ Ordered(h, c, t, Append(b, s))
         /\ Total(h, c, t, Append(b, s)) = s
<1>1. Len(b) \in Nat /\ Len(c) \in Nat /\ Len(t) \in Nat /\ Len(h) \in Nat
  BY DEF Short
<1>2. Append(b, s) \in Seq(Nat) /\ Len(Append(b, s)) = Len(b) + 1
  OBVIOUS
<1>3. \A i \in 1..Len(b) : Append(b, s)[i] = b[i]
  OBVIOUS
<1>4. Append(b, s)[Len(b) + 1] = s
  OBVIOUS
<1> DEFINE y == Append(b, s)
<1>5. s = Len(h) + Len(c) + Len(t) + Len(b) + 1
  BY DEF Total
<1>6. ASSUME NEW i \in 1..Len(y) PROVE y[i] = Len(h) + Len(c) + Len(t) + i
  <2> HIDE DEF y
  <2>1. CASE i = Len(b) + 1
    BY <1>1, <1>4, <1>5, <2>1 DEF y
  <2>2. CASE i # Len(b) + 1
    <3>1. i \in 1..Len(b)
      BY <1>1, <1>2, <2>2 DEF y
    <3>2. b[i] = Len(h) + Len(c) + Len(t) + i
      BY <3>1 DEF Ordered
    <3> QED
      BY <1>3, <3>1, <3>2 DEF y
  <2> QED
    BY <2>1, <2>2
<1>7. Ordered(h, c, t, y)
  <2> HIDE DEF y
  <2> QED
    BY <1>6 DEF Ordered
<1>8. Total(h, c, t, y) = s
  BY <1>1, <1>2, <1>5 DEF Total
<1> QED
  BY <1>2, <1>7, <1>8

LEMMA OrderedFill ==
  ASSUME NEW h \in Seq(Nat), NEW s \in Nat, Ordered(h, << >>, << >>, << >>),
         s = Total(h, << >>, << >>, << >>) + 1
  PROVE  /\ Short(<<s>>) /\ Ordered(h, <<s>>, << >>, << >>)
         /\ Total(h, <<s>>, << >>, << >>) = s
  BY DEF Ordered, Total, Short

LEMMA OrderedTake ==
  ASSUME NEW h \in Seq(Nat), NEW c, NEW b \in Seq(Nat), Short(c), b # << >>,
         Ordered(h, c, << >>, b)
  PROVE  /\ Short(<<Head(b)>>) /\ Len(<<Head(b)>>) = 1 /\ Tail(b) \in Seq(Nat)
         /\ Ordered(h, c, <<Head(b)>>, Tail(b))
         /\ Total(h, c, <<Head(b)>>, Tail(b)) = Total(h, c, << >>, b)
<1>1. Len(b) \in Nat /\ Len(c) \in Nat /\ Len(h) \in Nat /\ Len(b) >= 1
  BY DEF Short
<1>2. Head(b) \in Nat /\ Head(b) = b[1] /\ Tail(b) \in Seq(Nat) /\ Len(Tail(b)) = Len(b) - 1
  BY <1>1
<1>3. \A i \in 1..Len(Tail(b)) : Tail(b)[i] = b[i + 1]
  BY <1>1
<1>4. Short(<<Head(b)>>) /\ Len(<<Head(b)>>) = 1 /\ <<Head(b)>>[1] = Head(b) /\ Len(<< >>) = 0
  BY <1>2 DEF Short
<1>5. /\ \A i \in 1..Len(h) : h[i] = i
      /\ Len(c) = 1 => c[1] = Len(h) + 1
      /\ \A i \in 1..Len(b) : b[i] = Len(h) + Len(c) + i
  BY <1>1, <1>4 DEF Ordered
<1> DEFINE x == <<Head(b)>>
           y == Tail(b)
<1>6. Len(x) = 1 /\ x[1] = Len(h) + Len(c) + 1
  BY <1>1, <1>2, <1>4, <1>5
<1>7. ASSUME NEW i \in 1..Len(y) PROVE y[i] = Len(h) + Len(c) + 1 + i
  BY <1>1, <1>2, <1>3, <1>5
<1>8. Total(h, c, x, y) = Total(h, c, << >>, b)
  BY <1>1, <1>2, <1>4 DEF Total
<1>9. Ordered(h, c, x, y)
  <2> HIDE DEF x, y
  <2> QED
    BY <1>5, <1>6, <1>7 DEF Ordered
<1> QED
  BY <1>2, <1>4, <1>8, <1>9

LEMMA OrderedSend ==
  ASSUME NEW h \in Seq(Nat), NEW t, NEW b \in Seq(Nat), Short(t), Len(t) = 1,
         Ordered(h, << >>, t, b)
  PROVE  Ordered(h, t, << >>, b) /\ Total(h, t, << >>, b) = Total(h, << >>, t, b)
  BY DEF Ordered, Total, Short

LEMMA OrderedHandle ==
  ASSUME NEW h \in Seq(Nat), NEW c, NEW t, NEW b \in Seq(Nat), Short(c), Short(t), Len(c) = 1,
         Ordered(h, c, t, b)
  PROVE  /\ Append(h, Head(c)) \in Seq(Nat)
         /\ Ordered(Append(h, Head(c)), << >>, t, b)
         /\ Total(Append(h, Head(c)), << >>, t, b) = Total(h, c, t, b)
<1> DEFINE g == Append(h, Head(c))
<1>1. Len(h) \in Nat /\ Len(t) \in Nat /\ Len(b) \in Nat /\ Len(<< >>) = 0
  BY DEF Short
<1>2. Head(c) \in Nat /\ Head(c) = c[1]
  BY ShortCases
<1>3. g \in Seq(Nat) /\ Len(g) = Len(h) + 1 /\ g[Len(h) + 1] = Head(c)
      /\ \A i \in 1..Len(h) : g[i] = h[i]
  BY <1>2
<1> HIDE DEF g
<1>4. Head(c) = Len(h) + 1 /\ (Len(t) = 1 => t[1] = Len(g) + 1)
  BY <1>1, <1>2, <1>3 DEF Ordered
<1>5. ASSUME NEW i \in 1..Len(g) PROVE g[i] = i
  <2>1. CASE i = Len(h) + 1
    BY <1>3, <1>4, <2>1
  <2>2. CASE i # Len(h) + 1
    <3>1. i \in 1..Len(h)
      BY <1>1, <1>3, <2>2
    <3> QED
      BY <1>3, <3>1 DEF Ordered
  <2> QED
    BY <2>1, <2>2
<1>6. ASSUME NEW i \in 1..Len(b) PROVE b[i] = Len(g) + Len(t) + i
  <2>1. b[i] = Len(h) + Len(c) + Len(t) + i
    BY DEF Ordered
  <2> QED
    BY <1>1, <1>3, <2>1
<1>7. Ordered(g, << >>, t, b)
  <2>1. Len(g) + Len(<< >>) + Len(t) = Len(g) + Len(t) /\ Len(g) + Len(<< >>) = Len(g)
    BY <1>1, <1>3
  <2> QED
    BY <1>1, <1>4, <1>5, <1>6, <2>1 DEF Ordered
<1>8. Total(g, << >>, t, b) = Total(h, c, t, b)
  BY <1>1, <1>3 DEF Total
<1> QED
  BY <1>3, <1>7, <1>8 DEF g

(* Once the observer is closed, blocks may be missing; those that are left *)
(* still come in their order.                                              *)
Increasing(h, c) ==
    /\ \A i \in 2..Len(h) : h[i - 1] < h[i]
    /\ Len(c) = 1 /\ Len(h) > 0 => h[Len(h)] < c[1]

LEMMA OrderedIncreasing ==
  ASSUME NEW h \in Seq(Nat), NEW c, NEW t, NEW b \in Seq(Nat), Short(c), Short(t),
         Ordered(h, c, t, b)
  PROVE  Increasing(h, << >>) /\ Increasing(h, c) /\ Increasing(h, t)
<1>1. Len(h) \in Nat /\ Len(c) \in Nat /\ Len(t) \in Nat /\ Len(<< >>) = 0
  BY DEF Short
<1>2. ASSUME NEW i \in 2..Len(h) PROVE h[i - 1] < h[i]
  <2>1. i - 1 \in 1..Len(h) /\ i \in 1..Len(h) /\ i - 1 < i
    BY <1>1
  <2> QED
    BY <2>1 DEF Ordered
<1>3. Len(h) > 0 => h[Len(h)] = Len(h)
  BY <1>1 DEF Ordered
<1>4. (Len(c) = 1 => c[1] = Len(h) + 1) /\ (Len(t) = 1 => t[1] = Len(h) + Len(c) + 1)
  BY DEF Ordered
<1> QED
  BY <1>1, <1>2, <1>3, <1>4 DEF Increasing

LEMMA IncreasingHandle ==
  ASSUME NEW h \in Seq(Nat), NEW c, Short(c), Len(c) = 1, Increasing(h, c)
  PROVE  Append(h, Head(c)) \in Seq(Nat) /\ Increasing(Append(h, Head(c)), << >>)
<1> DEFINE g == Append(h, Head(c))
<1>1. Len(h) \in Nat /\ Len(<< >>) = 0 /\ Head(c) \in Nat /\ Head(c) = c[1]
  BY ShortCases, ShortEmpty
<1>2. g \in Seq(Nat) /\ Len(g) = Len(h) + 1 /\ g[Len(h) + 1] = Head(c)
      /\ \A i \in 1..Len(h) : g[i] = h[i]
  BY <1>1
<1> HIDE DEF g
<1>3. ASSUME NEW i \in 2..Len(g) PROVE g[i - 1] < g[i]
  <2>1. CASE i = Len(h) + 1
    BY <1>1, <1>2, <2>1 DEF Increasing
  <2>2. CASE i # Len(h) + 1
    <3>1. i \in 2..Len(h) /\ i - 1 \in 1..Len(h) /\ i \in 1..Len(h)
      BY <1>1, <1>2, <2>2
    <3> QED
      BY <1>2, <3>1 DEF Increasing
  <2> QED
    BY <2>1, <2>2
<1> QED
  BY <1>1, <1>2, <1>3 DEF Increasing, g
-----------------------------------------------------------------------------
(* From the store to watchBlocks.                                          *)

PipeTypes ==
    /\ stored \in Nat /\ handled \in Seq(Nat) /\ buffer \in Seq(Nat)
    /\ Short(ch) /\ Short(transit)
    /\ pusher \in {"none", "top", "send", "blocked"}

(* What the flags of the observer say about its goroutine and its buffer.  *)
FlagInv ==
    /\ closed => ~ watched /\ pusher # "blocked"
    /\ ~ watched => stopping /\ ~ notifying
    /\ ~ closed => (running <=> pusher # "none")
    /\ ~ closed /\ pusher = "none" => buffer = << >>
    /\ pusher \in {"send", "blocked"} => Len(transit) = 1
    /\ pusher \in {"none", "top"} => transit = << >>
    /\ pusher = "blocked" => Len(ch) = 1

(* Nothing is lost or overtaken while the observer is open.                *)
PipeInv ==
    /\ ~ closed => Ordered(handled, ch, transit, buffer)
    /\ watched /\ ~ notifying => stored = Total(handled, ch, transit, buffer)
    /\ watched /\ notifying => stored = Total(handled, ch, transit, buffer) + 1
    /\ closed => Increasing(handled, ch)

IPipe == PipeTypes /\ FlagInv /\ PipeInv

LEMMA PipeInit == Init => IPipe
<1> SUFFICES ASSUME Init PROVE IPipe
  OBVIOUS
<1>1. PipeTypes /\ FlagInv
  BY DEF Init, PipeTypes, FlagInv, Short
<1>2. PipeInv
  BY DEF Init, PipeInv, Ordered, Total
<1> QED
  BY <1>1, <1>2 DEF IPipe

LEMMA PipeCallback == IPipe /\ NotifyCallback => IPipe'
<1> SUFFICES ASSUME IPipe, NotifyCallback PROVE IPipe'
  OBVIOUS
<1> USE DEF IPipe, PipeTypes, FlagInv, PipeInv
<1>1. watched /\ ~ closed /\ stored = Total(handled, ch, transit, buffer) + 1
  BY DEF NotifyCallback
<1>2. CASE running \/ ch # << >>
  <2>1. /\ buffer' = Append(buffer, stored)
        /\ pusher' = (IF running THEN pusher ELSE "top") /\ running' = TRUE
    BY <1>1, <1>2 DEF NotifyCallback
  <2>2. /\ Append(buffer, stored) \in Seq(Nat)
        /\ Ordered(handled, ch, transit, Append(buffer, stored))
        /\ Total(handled, ch, transit, Append(buffer, stored)) = stored
    BY <1>1, OrderedBuffer
  <2>3. UNCHANGED <<stored, watched, closed, transit, handled, stopping, ch>> /\ ~ notifying'
    BY <1>1, <1>2 DEF NotifyCallback, loop
  <2> QED
    BY <1>1, <2>1, <2>2, <2>3
<1>3. CASE ~ running /\ ch = << >>
  <2>1. ch' = <<stored>> /\ pusher = "none" /\ transit = << >> /\ buffer = << >>
    BY <1>1, <1>3 DEF NotifyCallback
  <2>2. /\ Short(<<stored>>) /\ Ordered(handled, <<stored>>, << >>, << >>)
        /\ Total(handled, <<stored>>, << >>, << >>) = stored
    BY <1>1, <1>3, <2>1, OrderedFill
  <2>3. UNCHANGED <<stored, watched, closed, transit, handled, stopping, buffer, running, pusher>>
        /\ ~ notifying'
    BY <1>1, <1>3 DEF NotifyCallback, loop
  <2> QED
    BY <1>1, <2>1, <2>2, <2>3
<1> QED
  BY <1>2, <1>3

LEMMA PipePush == IPipe /\ (PushTop \/ PushSend) => IPipe'
<1> SUFFICES ASSUME IPipe PROVE (PushTop \/ PushSend) => IPipe'
  OBVIOUS
<1> USE DEF IPipe, PipeTypes, FlagInv, PipeInv
<1>1. ASSUME PushTop PROVE IPipe'
  <2>1. UNCHANGED <<stored, notifying, watched, ch, closed, handled, stopping>> /\ transit = << >>
    BY <1>1 DEF PushTop, store, loop
  <2>2. CASE buffer = << >>
    BY <1>1, <2>1, <2>2 DEF PushTop
  <2>3. CASE buffer # << >>
    <3>1. transit' = <<Head(buffer)>> /\ buffer' = Tail(buffer) /\ pusher' = "send"
          /\ running' = running /\ pusher = "top"
      BY <1>1, <2>3 DEF PushTop
    <3>2. Short(<<Head(buffer)>>) /\ Len(<<Head(buffer)>>) = 1 /\ Tail(buffer) \in Seq(Nat)
      BY <2>3 DEF Short
    <3>3. CASE ~ closed
      <4>1. /\ Ordered(handled, ch, <<Head(buffer)>>, Tail(buffer))
            /\ Total(handled, ch, <<Head(buffer)>>, Tail(buffer))
                 = Total(handled, ch, << >>, buffer)
        BY <2>1, <2>3, <3>3, OrderedTake
      <4> QED
        BY <2>1, <3>1, <3>2, <3>3, <4>1
    <3>4. CASE closed
      BY <2>1, <3>1, <3>2, <3>4
    <3> QED
      BY <3>3, <3>4
  <2> QED
    BY <2>2, <2>3
<1>2. ASSUME PushSend PROVE IPipe'
  <2>1. UNCHANGED <<stored, notifying, watched, buffer, running, closed, handled, stopping>>
        /\ pusher = "send" /\ Len(transit) = 1
    BY <1>2 DEF PushSend, store, loop
  <2>2. CASE closed
    BY <1>2, <2>1, <2>2 DEF PushSend
  <2>3. CASE ~ closed /\ ch = << >>
    <3>1. ch' = transit /\ transit' = << >> /\ pusher' = "top"
      BY <1>2, <2>3 DEF PushSend
    <3>2. /\ Ordered(handled, transit, << >>, buffer)
          /\ Total(handled, transit, << >>, buffer) = Total(handled, << >>, transit, buffer)
      BY <2>1, <2>3, OrderedSend
    <3> QED
      BY <2>1, <2>3, <3>1, <3>2, ShortEmpty
  <2>4. CASE ~ closed /\ ch # << >>
    <3>1. pusher' = "blocked" /\ ch' = ch /\ transit' = transit /\ Len(ch) = 1
      BY <1>2, <2>4, ShortCases DEF PushSend
    <3> QED
      BY <2>1, <2>4, <3>1
  <2> QED
    BY <2>2, <2>3, <2>4
<1> QED
  BY <1>1, <1>2

LEMMA PipeClose == IPipe /\ Close => IPipe'
<1> SUFFICES ASSUME IPipe, Close PROVE IPipe'
  OBVIOUS
<1> USE DEF IPipe, PipeTypes, FlagInv, PipeInv
<1>1. /\ stopping /\ ~ watched /\ ~ closed /\ closed' /\ buffer' = << >>
      /\ UNCHANGED <<stored, notifying, watched, handled, stopping>>
  BY DEF Close, store, loop
<1>2. Increasing(handled, << >>) /\ Increasing(handled, ch) /\ Increasing(handled, transit)
  BY <1>1, OrderedIncreasing
<1>3. << >> \in Seq(Nat)
  OBVIOUS
<1>4. CASE ch = << >>
  <2>1. UNCHANGED <<ch, transit, pusher>> /\ pusher # "blocked"
    BY <1>4, ShortEmpty DEF Close
  <2> QED
    BY <1>1, <1>2, <1>3, <2>1
<1>5. CASE ch # << >> /\ pusher = "blocked"
  <2>1. ch' = transit /\ transit' = << >> /\ pusher' = "top"
    BY <1>5 DEF Close, Receive
  <2> QED
    BY <1>1, <1>2, <1>3, <2>1, ShortEmpty
<1>6. CASE ch # << >> /\ pusher # "blocked"
  <2>1. ch' = << >> /\ transit' = transit /\ pusher' = pusher
    BY <1>6 DEF Close, Receive
  <2> QED
    BY <1>1, <1>2, <1>3, <1>6, <2>1, ShortEmpty
<1> QED
  BY <1>4, <1>5, <1>6

LEMMA PipeNextLink == IPipe /\ NextLink => IPipe'
<1> SUFFICES ASSUME IPipe, NextLink PROVE IPipe'
  OBVIOUS
<1> USE DEF IPipe, PipeTypes, FlagInv, PipeInv
<1> DEFINE g == Append(handled, Head(ch))
<1>1. /\ handled' = g /\ ch # << >> /\ Len(ch) = 1
      /\ UNCHANGED <<stored, notifying, watched, buffer, running, closed, stopping>>
  BY ShortCases DEF NextLink, store
<1>2. CASE closed
  <2>1. g \in Seq(Nat) /\ Increasing(g, << >>)
    BY <1>1, <1>2, IncreasingHandle
  <2>2. ch' = << >> /\ transit' = transit /\ pusher' = pusher
    BY <1>2 DEF NextLink, Receive
  <2> HIDE DEF g
  <2> QED
    BY <1>1, <1>2, <2>1, <2>2, ShortEmpty
<1>3. CASE ~ closed
  <2>1. /\ g \in Seq(Nat) /\ Ordered(g, << >>, transit, buffer)
        /\ Total(g, << >>, transit, buffer) = Total(handled, ch, transit, buffer)
    BY <1>1, <1>3, OrderedHandle
  <2> HIDE DEF g
  <2>2. CASE pusher # "blocked"
    <3>1. ch' = << >> /\ transit' = transit /\ pusher' = pusher
      BY <2>2 DEF NextLink, Receive
    <3> QED
      BY <1>1, <1>3, <2>1, <2>2, <3>1, ShortEmpty
  <2>3. CASE pusher = "blocked"
    <3>1. ch' = transit /\ transit' = << >> /\ pusher' = "top" /\ Len(transit) = 1
      BY <2>3 DEF NextLink, Receive
    <3>2. /\ Ordered(g, transit, << >>, buffer)
          /\ Total(g, transit, << >>, buffer) = Total(g, << >>, transit, buffer)
      BY <2>1, <3>1, OrderedSend
    <3> QED
      BY <1>1, <1>3, <2>1, <2>3, <3>1, <3>2, ShortEmpty
  <2> QED
    BY <2>2, <2>3
<1> QED
  BY <1>2, <1>3

LEMMA PipeNext == IPipe /\ [Next]_vars => IPipe'
<1> SUFFICES ASSUME IPipe, [Next]_vars PROVE IPipe'
  OBVIOUS
<1>1. CASE Notify
  BY <1>1 DEF Notify, observer, loop, IPipe, PipeTypes, FlagInv, PipeInv
<1>2. CASE Stop \/ Remove
  BY <1>2 DEF Stop, Remove, store, observer, loop, IPipe, PipeTypes, FlagInv, PipeInv
<1>3. CASE UNCHANGED <<store, observer, handled, stopping>>
  BY <1>3 DEF store, observer, IPipe, PipeTypes, FlagInv, PipeInv
<1>4. HandleBlock \/ Notified \/ (\E l \in Listener : Step(l)) \/ UNCHANGED vars
      => UNCHANGED <<store, observer, handled, stopping>>
  BY DEF HandleBlock, Notified, Step, NotifyListener, Watch, Listen, Leave, Timeout, Unwatch,
         loop, vars
<1> QED
  BY <1>1, <1>2, <1>3, <1>4, PipeCallback, PipePush, PipeClose, PipeNextLink DEF Next
-----------------------------------------------------------------------------
(* From watchBlocks to the listeners.                                      *)

(* What a listener has received (r) and what waits in its channel (x): the *)
(* blocks follow one another, and the last one is k.                       *)
Follows(r, x) ==
    /\ \A i \in 2..Len(r) : r[i] = r[i - 1] + 1
    /\ Len(x) = 1 /\ Len(r) > 0 => x[1] = r[Len(r)] + 1

Latest(r, x, k) ==
    /\ Len(x) = 1 => x[1] = k
    /\ x = << >> /\ Len(r) > 0 => r[Len(r)] = k

LEMMA FollowsSend ==
  ASSUME NEW r \in Seq(Nat), NEW k \in Nat, Follows(r, << >>), Latest(r, << >>, k - 1)
  PROVE  Short(<<k>>) /\ Follows(r, <<k>>) /\ Latest(r, <<k>>, k)
<1>1. Len(<<k>>) = 1 /\ <<k>>[1] = k /\ <<k>> # << >> /\ Short(<<k>>)
  BY DEF Short
<1>2. Len(r) > 0 => r[Len(r)] = k - 1
  BY DEF Latest
<1> QED
  BY <1>1, <1>2 DEF Follows, Latest

LEMMA FollowsListen ==
  ASSUME NEW r \in Seq(Nat), NEW x, Short(x), Len(x) = 1, Follows(r, x)
  PROVE  /\ r \o x \in Seq(Nat) /\ Follows(r \o x, << >>)
         /\ \A k : Latest(r, x, k) => Latest(r \o x, << >>, k)
<1> DEFINE y == r \o x
<1>1. Len(r) \in Nat /\ x[1] \in Nat /\ Len(<< >>) = 0 /\ x \in Seq(Nat)
  BY ShortCases, ShortEmpty DEF Short
<1>2. y \in Seq(Nat) /\ Len(y) = Len(r) + 1 /\ y[Len(r) + 1] = x[1]
      /\ \A i \in 1..Len(r) : y[i] = r[i]
  <2>1. /\ y \in Seq(Nat) /\ Len(y) = Len(r) + Len(x)
        /\ \A i \in 1..Len(r) + Len(x) : y[i] = IF i =< Len(r) THEN r[i] ELSE x[i - Len(r)]
    BY <1>1, ConcatProperties, Zenon
  <2> HIDE DEF y
  <2>2. ASSUME NEW i \in 1..Len(r) PROVE y[i] = r[i]
    BY <1>1, <2>1
  <2>3. y[Len(r) + 1] = x[1]
    <3>1. Len(r) + 1 \in 1..Len(r) + Len(x) /\ ~(Len(r) + 1 =< Len(r)) /\ Len(r) + 1 - Len(r) = 1
      BY <1>1
    <3> QED
      BY <2>1, <3>1
  <2> QED
    BY <2>1, <2>2, <2>3
<1> HIDE DEF y
<1>3. ASSUME NEW i \in 2..Len(y) PROVE y[i] = y[i - 1] + 1
  <2>1. CASE i = Len(r) + 1
    <3>1. Len(r) \in 1..Len(r) /\ i - 1 = Len(r)
      BY <1>1, <1>2, <2>1
    <3>2. y[i] = x[1] /\ y[i - 1] = r[Len(r)]
      BY <1>2, <2>1, <3>1
    <3> QED
      BY <1>1, <3>1, <3>2 DEF Follows
  <2>2. CASE i # Len(r) + 1
    <3>1. i \in 2..Len(r) /\ i - 1 \in 1..Len(r) /\ i \in 1..Len(r)
      BY <1>1, <1>2, <2>2
    <3> QED
      BY <1>2, <3>1 DEF Follows
  <2> QED
    BY <2>1, <2>2
<1>4. Follows(y, << >>)
  BY <1>1, <1>3 DEF Follows
<1>5. ASSUME NEW k, Latest(r, x, k) PROVE Latest(y, << >>, k)
  BY <1>1, <1>2, <1>5 DEF Latest
<1> QED
  BY <1>2, <1>4, <1>5 DEF y

Registered(l) == listener[l] \in {"listening", "left", "expired"}

LoopTypes ==
    /\ handling \in {"wait", "block", "notify"} /\ todo \subseteq Listener
    /\ listener \in [Listener -> {"new", "listening", "left", "expired", "removed"}]
    /\ inbox \in [Listener -> Seq(Nat)] /\ \A l \in Listener : Short(inbox[l])
    /\ received \in [Listener -> Seq(Nat)]
    /\ open \in [Listener -> BOOLEAN]

(* Those to notify are registered, for the lock keeps Remove away, and the *)
(* channel of who is registered is open.                                   *)
LoopInv ==
    /\ handling # "notify" => todo = {}
    /\ handling # "wait" => Len(handled) > 0
    /\ \A l \in todo : Registered(l)
    /\ \A l \in Listener : Registered(l) \/ listener[l] = "new" => open[l]

(* The block that a registered listener was told last, if any.             *)
Known(l) == IF handling = "block" \/ l \in todo THEN Len(handled) - 1 ELSE Len(handled)

Told(l) ==
    /\ Follows(received[l], inbox[l])
    /\ Registered(l) => Latest(received[l], inbox[l], Known(l))
    /\ listener[l] = "new" => received[l] = << >> /\ inbox[l] = << >>

ToldInv == ~ closed => \A l \in Listener : Told(l)

IInv == IPipe /\ LoopTypes /\ LoopInv /\ ToldInv

LEMMA LoopInit == Init => LoopTypes /\ LoopInv /\ ToldInv
<1> SUFFICES ASSUME Init PROVE LoopTypes /\ LoopInv /\ ToldInv
  OBVIOUS
<1>1. LoopTypes /\ LoopInv
  BY ShortEmpty DEF Init, LoopTypes, LoopInv, Registered
<1>2. ASSUME NEW l \in Listener PROVE Told(l)
  <2>1. listener[l] = "new" /\ received[l] = << >> /\ inbox[l] = << >>
    BY DEF Init
  <2>2. Follows(<< >>, << >>)
    BY ShortEmpty DEF Follows
  <2> QED
    BY <2>1, <2>2 DEF Told, Registered
<1> QED
  BY <1>1, <1>2 DEF ToldInv

LEMMA LoopNext == IInv /\ [Next]_vars => (LoopTypes /\ LoopInv)'
<1> SUFFICES ASSUME IInv, [Next]_vars PROVE (LoopTypes /\ LoopInv)'
  OBVIOUS
<1> USE DEF IInv, LoopTypes, LoopInv, Registered
<1>1. CASE UNCHANGED <<loop, listeners>>
  BY <1>1 DEF loop, listeners
<1>2. CASE NextLink
  <2>1. UNCHANGED <<todo, listener, inbox, received, open>> /\ handling = "wait"
        /\ handling' = "block" /\ handled' = Append(handled, Head(ch))
    BY <1>2 DEF NextLink, listeners
  <2>2. Len(handled') > 0
    BY <1>2, PipeNextLink, <2>1 DEF IPipe, PipeTypes
  <2> QED
    BY <2>1, <2>2
<1>3. CASE HandleBlock \/ Notified
  BY <1>3 DEF HandleBlock, Notified, listeners
<1>4. ASSUME NEW l \in Listener, NotifyListener(l) PROVE (LoopTypes /\ LoopInv)'
  <2>1. handled[Len(handled)] \in Nat
    BY <1>4 DEF NotifyListener, IPipe, PipeTypes
  <2>2. Short(<<handled[Len(handled)]>>) /\ <<handled[Len(handled)]>> \in Seq(Nat)
    BY <2>1 DEF Short
  <2> QED
    BY <1>4, <2>2 DEF NotifyListener
<1>5. ASSUME NEW l \in Listener, Listen(l) PROVE (LoopTypes /\ LoopInv)'
  <2>1. received[l] \o inbox[l] \in Seq(Nat)
    OBVIOUS
  <2> QED
    BY <1>5, <2>1, ShortEmpty DEF Listen, loop
<1>6. ASSUME NEW l \in Listener, Watch(l) \/ Leave(l) \/ Timeout(l) \/ Unwatch(l)
      PROVE (LoopTypes /\ LoopInv)'
  BY <1>6 DEF Watch, Leave, Timeout, Unwatch, loop
<1>7. Notify \/ NotifyCallback \/ PushTop \/ PushSend \/ Stop \/ Remove \/ Close
      \/ UNCHANGED vars => UNCHANGED <<loop, listeners>>
  BY DEF Notify, NotifyCallback, PushTop, PushSend, Stop, Remove, Close, vars
<1> QED
  BY <1>1, <1>2, <1>3, <1>4, <1>5, <1>6, <1>7 DEF Next, Step

LEMMA ToldNext == IInv /\ [Next]_vars => ToldInv'
<1> SUFFICES ASSUME IInv, [Next]_vars, ~ closed', NEW m \in Listener PROVE Told(m)'
  BY DEF ToldInv
<1> USE DEF IInv, LoopTypes, LoopInv
<1>0. ~ closed /\ Told(m) /\ Len(handled) \in Nat
  <2>1. closed => closed'
    BY DEF Next, Step, vars, Notify, NotifyCallback, PushTop, PushSend, Stop, Remove, Close,
           NextLink, HandleBlock, Notified, NotifyListener, Watch, Listen, Leave, Timeout,
           Unwatch, observer
  <2> QED
    BY <2>1 DEF ToldInv, IPipe, PipeTypes
<1>1. CASE UNCHANGED <<loop, listeners>>
  BY <1>0, <1>1 DEF loop, listeners, Told, Known, Registered
<1>2. CASE NextLink
  <2>1. UNCHANGED <<todo, listener, inbox, received, open>> /\ handling = "wait" /\ todo = {}
        /\ handling' = "block" /\ handled' = Append(handled, Head(ch))
    BY <1>2 DEF NextLink, listeners
  <2>2. Len(handled') = Len(handled) + 1
    BY <1>2, <2>1, PipeNextLink DEF IPipe, PipeTypes
  <2>3. Known(m)' = Known(m)
    BY <1>0, <2>1, <2>2 DEF Known
  <2> QED
    BY <1>0, <2>1, <2>3 DEF Told, Registered
<1>3. CASE HandleBlock \/ Notified
  <2>1. UNCHANGED <<listener, inbox, received, handled>>
    BY <1>3 DEF HandleBlock, Notified, listeners
  <2>2. Registered(m) => Known(m)' = Known(m)
    BY <1>3, <2>1 DEF HandleBlock, Notified, Known, Registered
  <2> QED
    BY <1>0, <2>1, <2>2 DEF Told, Registered
<1>4. ASSUME NEW l \in Listener, NotifyListener(l) PROVE Told(m)'
  <2> DEFINE k == handled[Len(handled)]
  <2>1. /\ UNCHANGED <<handled, handling, listener, received>> /\ l \in todo
        /\ inbox[l] = << >> /\ inbox' = [inbox EXCEPT ![l] = <<k>>] /\ todo' = todo \ {l}
        /\ handling = "notify" /\ Registered(l)
    BY <1>4 DEF NotifyListener
  <2>2. k = Len(handled) /\ k \in Nat
    <3>1. handled \in Seq(Nat) /\ Len(handled) > 0
      BY <1>0, <2>1 DEF IInv, IPipe, PipeTypes, LoopInv
    <3>2. Len(handled) \in 1..Len(handled) /\ Len(handled) \in Nat
      BY <3>1
    <3>3. \A i \in 1..Len(handled) : handled[i] = i
      BY <1>0 DEF IInv, IPipe, PipeInv, Ordered
    <3> QED
      BY <3>2, <3>3
  <2> HIDE DEF k
  <2>3. CASE m = l
    <3>1. Follows(received[m], << >>) /\ Latest(received[m], << >>, k - 1)
      BY <1>0, <2>1, <2>2, <2>3 DEF Told, Known
    <3>2. Follows(received[m], <<k>>) /\ Latest(received[m], <<k>>, k)
      BY <2>2, <3>1, FollowsSend
    <3>3. inbox'[m] = <<k>> /\ Known(m)' = k /\ listener[m] # "new"
      BY <2>1, <2>2, <2>3 DEF Known, Registered
    <3> QED
      BY <2>1, <3>2, <3>3 DEF Told
  <2>4. CASE m # l
    <3>1. inbox'[m] = inbox[m] /\ Known(m)' = Known(m)
      BY <2>1, <2>4 DEF Known
    <3> QED
      BY <1>0, <2>1, <3>1 DEF Told, Registered
  <2> QED
    BY <2>3, <2>4
<1>5. ASSUME NEW l \in Listener, Listen(l) PROVE Told(m)'
  <2>1. /\ UNCHANGED <<handled, handling, todo, listener>> /\ listener[l] # "new"
        /\ received' = [received EXCEPT ![l] = received[l] \o inbox[l]]
        /\ inbox' = [inbox EXCEPT ![l] = << >>] /\ Len(inbox[l]) = 1
    BY <1>5, ShortCases DEF Listen, loop
  <2>2. Known(m)' = Known(m)
    BY <2>1 DEF Known
  <2>3. CASE m = l
    <3>1. /\ Follows(received[m] \o inbox[m], << >>)
          /\ \A k : Latest(received[m], inbox[m], k) => Latest(received[m] \o inbox[m], << >>, k)
      BY <1>0, <2>1, <2>3, FollowsListen DEF Told
    <3>2. received'[m] = received[m] \o inbox[m] /\ inbox'[m] = << >>
      BY <2>1, <2>3
    <3> QED
      BY <1>0, <2>1, <2>2, <2>3, <3>1, <3>2 DEF Told, Registered
  <2>4. CASE m # l
    BY <1>0, <2>1, <2>2, <2>4 DEF Told, Registered
  <2> QED
    BY <2>3, <2>4
<1>6. ASSUME NEW l \in Listener, Watch(l) \/ Leave(l) \/ Timeout(l) \/ Unwatch(l)
      PROVE Told(m)'
  <2>1. /\ UNCHANGED <<handled, handling, todo, inbox, received>>
        /\ listener'[m] = "new" => listener[m] = "new"
        /\ Registered(m)' => Registered(m) \/ listener[m] = "new"
    BY <1>6 DEF Watch, Leave, Timeout, Unwatch, loop, Registered
  <2>2. Known(m)' = Known(m)
    BY <2>1 DEF Known
  <2>3. ASSUME listener[m] = "new" PROVE Latest(received[m], inbox[m], Known(m))
    BY <1>0, <2>3, ShortEmpty DEF Told, Latest
  <2> QED
    BY <1>0, <2>1, <2>2, <2>3 DEF Told
<1>7. Notify \/ NotifyCallback \/ PushTop \/ PushSend \/ Stop \/ Remove \/ Close
      \/ UNCHANGED vars => UNCHANGED <<loop, listeners>>
  BY DEF Notify, NotifyCallback, PushTop, PushSend, Stop, Remove, Close, vars
<1> QED
  BY <1>1, <1>2, <1>3, <1>4, <1>5, <1>6, <1>7 DEF Next, Step

(* The whole invariant holds in every reachable state.                     *)
THEOREM ObserversInvariant == Spec => []IInv
<1>1. Init => IInv
  BY PipeInit, LoopInit DEF IInv
<1>2. IInv /\ [Next]_vars => IInv'
  BY PipeNext, LoopNext, ToldNext DEF IInv
<1> QED
  BY <1>1, <1>2, PTL DEF Spec

(* Blocks are announced in their order, to watchBlocks and to every        *)
(* listener, for any number of them (observer.NotifyCallback, pushAndWait, *)
(* watchBlocks and Watcher.Notify).                                        *)
THEOREM AnnouncedInOrder == Spec => []InOrder
<1>1. IInv => InOrder
  <2> SUFFICES ASSUME IInv PROVE InOrder
    OBVIOUS
  <2>1. ~ stopping => ~ closed
    BY DEF IInv, IPipe, FlagInv
  <2>2. \A i \in 2 .. Len(handled) : handled[i - 1] < handled[i]
    BY OrderedIncreasing DEF IInv, IPipe, PipeTypes, PipeInv, Increasing
  <2>3. ~ stopping => \A i \in DOMAIN handled : handled[i] = i
    BY <2>1 DEF IInv, IPipe, PipeTypes, PipeInv, Ordered
  <2>4. \A l \in Listener : \A i \in 2 .. Len(received[l]) :
           ~ stopping => received[l][i] = received[l][i - 1] + 1
    BY <2>1 DEF IInv, ToldInv, Told, Follows
  <2> QED
    BY <2>2, <2>3, <2>4 DEF InOrder
<1> QED
  BY <1>1, ObserversInvariant, PTL

(* An event is never sent to the closed channel of a listener: Remove      *)
(* waits until Notify has gone through them (Service.Watch).               *)
THEOREM ListenersAlwaysOpen == Spec => []ListenersOpen
<1>1. IInv => ListenersOpen
  BY DEF IInv, LoopTypes, LoopInv, ListenersOpen
<1> QED
  BY <1>1, ObserversInvariant, PTL
=============================================================================
