\* Units of every task a protocol is accepted for.
SPECIFICATION Spec
CONSTANTS
  Tasks = {"handover_mic", "open_microwave", "put_object_cabinet", "put_bottles_dustbin",
           "place_fan", "place_shoe", "scan_object", "place_a2b_left", "stack_blocks_three",
           "blocks_ranking_rgb", "blocks_ranking_size", "place_a2b_right",
           "place_bread_basket", "place_cans_plasticbox", "rotate_qrcode", "stamp_seal"}
  MaxControls = 1
  Observations = 1
  Absent = Absent
INVARIANTS
  AcceptedTasksPair
\* A unit ends with its pair, or with an exception.
CHECK_DEADLOCK FALSE
