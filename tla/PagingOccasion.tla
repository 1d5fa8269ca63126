---------------------------- MODULE PagingOccasion ----------------------------
(***************************************************************************)
(* When a UE is paged.  The gNB computes, from the UE id and the clock, the *)
(* frame (PF) and the subframe (PO) it files a page under; the UE computes *)
(* on its own, with macros, the PF and PO at which a page is on time.      *)
(*                                                                         *)
(* Unsigned C types keep their width: uint8_t is % 256, uint16_t % 65536.  *)
(***************************************************************************)
EXTENDS FrameClock

CONSTANTS
  DRX,     \* frames in a paging cycle: 128
  Ns,      \* paging occasions in a paging frame: 2
  table    \* table[Ns][i]: the subframe of the i-th occasion

N0 == DRX \div Ns          \* paging frames in a cycle, in int (UE)
N  == N0 % 256             \* the same in uint8_t (gNB)

(***************************************************************************)
(* What the #defines of both global.h satisfy.  The rows of the table that *)
(* hold no -1 are those of 1, 2 and 4 occasions per frame.                 *)
(***************************************************************************)
ASSUME OccasionAssumption ==
  /\ DRX \in Nat \ {0}
  /\ Ns \in {1, 2, 4}
  /\ N0 \in 1 .. 255
  /\ DRX = Ns * N0
  /\ \E cycles \in 1 .. 255 : SfnPeriod = cycles * DRX
  /\ SfnPeriod + DRX <= 65536
  /\ SubFrames <= 256
  /\ \A i \in 0 .. Ns - 1 : table[Ns][i] \in 0 .. SubFrames - 1

-----------------------------------------------------------------------------
(* The gNB (gnb/caculate.c)                                                *)

\* Mutant: the frame is not spread over the cycle.
caculate_pf_mod_t_unspread(ue_id) == ue_id % N

\* PF as calculate_rrc_parameter computes it; the function of this name, which the
\* exercise 5 gNB never calls, says the same.
caculate_pf_mod_t(ue_id) == ((DRX \div N) * (ue_id % N)) % 65536

\* Mutant: an occasion in the current subframe is taken too.
calculate_rrc_parameter_now(ue_id, sfn, sf) ==
  LET pf == caculate_pf_mod_t(ue_id)
      po == table[Ns][((ue_id \div N) % 256) % Ns] % 256
  IN  [PO |-> po,
       PF |-> IF sfn % DRX = pf /\ po >= sf
              THEN sfn ELSE ((((sfn \div DRX) % 256) + 1) * DRX + pf) % 65536]

calculate_rrc_parameter(ue_id, sfn, sf) ==
  LET pf    == caculate_pf_mod_t(ue_id)
      is    == ((ue_id \div N) % 256) % Ns
      po    == table[Ns][is] % 256
      cycle == (sfn \div DRX) % 256
  IN  [PO |-> po,
       PF |-> IF sfn % DRX = pf /\ po > sf
              THEN sfn                                  \* still in this frame
              ELSE ((cycle + 1) * DRX + pf) % 65536]    \* in the next cycle

\* The key of the paging map; an occasion of the clock is looked up by its slot.
Key(pf, po) == pf * SubFrames + po

-----------------------------------------------------------------------------
(* The UE (ue/global.h, ue/connect.c)                                      *)

UePF(ue_id) == (DRX \div N0) * (ue_id % N0)
UePO(ue_id) == table[Ns][(ue_id \div N0) % Ns]

\* Mutant: the occasion is looked at, the frame is not.
check_correct_rrc_time_any_frame(ue_id, sfn, sf) == sf = UePO(ue_id)

check_correct_rrc_time(ue_id, sfn, sf) ==
  sfn % DRX = UePF(ue_id) /\ sf = UePO(ue_id)

-----------------------------------------------------------------------------
(* The reference both are compared with, which is not in the code: the     *)
(* next slot, within two cycles, at which the UE is awake.                 *)
Awake(ue_id, at) ==
  {s \in Slot(at) + 1 .. Slot(at) + 2 * DRX * SubFrames :
     check_correct_rrc_time(ue_id, s \div SubFrames, s % SubFrames)}

NextAwake(ue_id, at) ==
  CHOOSE s \in Awake(ue_id, at) : \A t \in Awake(ue_id, at) : s <= t
=============================================================================
