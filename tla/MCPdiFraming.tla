---------------------------- MODULE MCPdiFraming ----------------------------
(* Instances of PdiFraming for TLC: the real special bytes and short requests that  *)
(* begin with 0x26 (BASE_MEMORY): each special byte alone, 9 and 252 (with which     *)
(* the checksum would be SOP or STF), pairs of special bytes, special bytes among    *)
(* others, and an STF at the end of a request that needs the filler.                *)
EXTENDS PdiFraming

BaseMemory == 38
MCPayloads ==
  {<<BaseMemory>> \o data : data \in
    {<<b>> : b \in Special \union {9, 252}}
      \union {<<STF, SOP>>, <<STF, STF>>, <<EOP, 1>>, <<SOP, EOP>>, <<64, STF>>,
              <<1, STF, 3>>, <<STF, 66, EOP>>}}
=============================================================================
