-------------------------- MODULE MarkingTheClose --------------------------
(***************************************************************************)
(* MarkingTheCloseDetector (cpp/detectors/marking_the_close_detector.cpp):   *)
(* volume executed in the window before the close, per account and in all,   *)
(* and the groups of related accounts discovered so far.                     *)
(*                                                                          *)
(* The state is one record, since an execution checks two accounts one after *)
(* the other.  group_parent_ is kept fully compressed: group_members()       *)
(* resolves every account that was seen, so no longer path outlives a check. *)
(***************************************************************************)
EXTENDS AccountRegistry, Integers, FiniteSetsExt, Sequences

CONSTANTS Instruments,
          NoAccount,             \* the empty counterparty_account_id
          CloseTime,             \* close_time_ns_by_instrument
          WindowDuration,        \* window_duration_ns
          ConcentrationPercent,  \* concentration_threshold
          MinAccountQty,         \* min_account_qty_threshold
          MinTotalQty            \* min_total_window_qty_threshold

CloseConfigured ==
  /\ NoAccount \notin Accounts
  /\ DOMAIN CloseTime \subseteq Instruments
  /\ {WindowDuration, ConcentrationPercent, MinAccountQty, MinTotalQty} \subseteq Nat

VARIABLE close

AccountKeys == Instruments \X Accounts

CloseTypeOK ==
  /\ close.total \in [Instruments -> Nat]
  /\ close.volume \in [AccountKeys -> Nat]
  /\ close.alerted \subseteq AccountKeys
  /\ close.group \in [Accounts -> Accounts \cup {NoAccount}]

CloseInit ==
  close = [total |-> [i \in Instruments |-> 0],     \* total_window_qty_
           volume |-> [k \in AccountKeys |-> 0],    \* account_window_qty_
           trades |-> [k \in AccountKeys |-> <<>>], \* trade_ids_by_key_
           alerted |-> {},                          \* alerted_
           group |-> [a \in Accounts |-> NoAccount]]  \* group_parent_; NoAccount: not seen

Seen(s) == {a \in Accounts : s.group[a] # NoAccount}

\* Fault: a new account joins the group of one account it is related to.
JoinOne(registry, s, account) ==
  LET kin == {s.group[b] : b \in {c \in Seen(s) : IsRelated(registry, account, c)}}
  IN IF account \in Seen(s) THEN s
     ELSE [s EXCEPT !.group[account] = IF kin = {} THEN account ELSE CHOOSE r \in kin : TRUE]

\* A new account unites the groups it is related to.  Which root survives depends
\* on the order of an unordered set, and nothing else reads it.
RegisterAndGroup(registry, s, account) ==
  LET kin == {s.group[b] : b \in {c \in Seen(s) : IsRelated(registry, account, c)}}
      root == IF kin = {} THEN account ELSE CHOOSE r \in kin : TRUE
  IN IF account \in Seen(s) THEN s
     ELSE [s EXCEPT !.group = [a \in Accounts |->
             IF a = account \/ (s.group[a] # NoAccount /\ s.group[a] \in kin) THEN root
             ELSE s.group[a]]]

GroupMembers(s, account) == {a \in Seen(s) : s.group[a] = s.group[account]}

\* Fault: only the account's own alerts count.
AlertedItself(s, i, account) == <<i, account>> \in s.alerted
GroupAlerted(s, i, account) == \E m \in GroupMembers(s, account) : <<i, m>> \in s.alerted

GroupVolume(s, i, account) ==
  MapThenSumSet(LAMBDA m : s.volume[<<i, m>>], GroupMembers(s, account))

Dominates(volume, total) ==
  /\ volume >= MinAccountQty
  /\ total >= MinTotalQty
  /\ 100 * volume >= ConcentrationPercent * total

CloseAlert(s, members, event, sequence) ==
  [detector |-> "MarkingTheClose", instrument |-> event.instrument, accounts |-> members,
   orders |-> UNION {Range(s.trades[<<event.instrument, m>>]) : m \in members},
   start |-> CloseTime[event.instrument] - WindowDuration, end |-> event.ts, sequence |-> sequence]

\* check_account: the state after it, and the alert it returns, if any.
CheckAccount(registry, s, account, event, sequence) ==
  LET i == event.instrument
      known == RegisterAndGroup(registry, s, account)
      fires == /\ ~GroupAlerted(known, i, account)
               /\ Dominates(GroupVolume(known, i, account), known.total[i])
  IN [state |-> IF fires THEN [known EXCEPT !.alerted = @ \cup {<<i, account>>}] ELSE known,
      alerts |-> IF ~fires THEN <<>>
                 ELSE <<CloseAlert(known, GroupMembers(known, account), event, sequence)>>]

\* An instrument without a known close is never evaluated.
InWindow(event) ==
  /\ event.instrument \in DOMAIN CloseTime
  /\ event.ts >= CloseTime[event.instrument] - WindowDuration
  /\ event.ts <= CloseTime[event.instrument]

Participants(event) == {event.account} \cup ({event.counterparty} \ {NoAccount})

\* Both sides are credited, the total counts the trade once.
Credited(event) ==
  [close EXCEPT
     !.total[event.instrument] = @ + event.qty,
     !.volume = [k \in AccountKeys |->
        IF k[1] = event.instrument /\ k[2] \in Participants(event) THEN @[k] + event.qty ELSE @[k]],
     !.trades = [k \in AccountKeys |->
        IF k[1] = event.instrument /\ k[2] \in Participants(event)
        THEN Append(@[k], event.trade) ELSE @[k]]]

\* handle_execution: the account first, then its counterparty.
HandleTrade(registry, event, sequence) ==
  LET first == CheckAccount(registry, Credited(event), event.account, event, sequence)
      second == CheckAccount(registry, first.state, event.counterparty, event, sequence)
  IN IF event.counterparty \in {NoAccount, event.account} THEN first
     ELSE [state |-> second.state, alerts |-> first.alerts \o second.alerts]

Relevant(event) == event.kind = "Execution" /\ InWindow(event)

CloseAlerts(registry, event, sequence) ==
  IF Relevant(event) THEN HandleTrade(registry, event, sequence).alerts ELSE <<>>

EvaluateClose(registry, event, sequence) ==
  close' = IF Relevant(event) THEN HandleTrade(registry, event, sequence).state ELSE close
=============================================================================
