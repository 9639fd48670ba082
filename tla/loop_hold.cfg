SPECIFICATION Spec
CONSTANTS Worker = {w1, w2}
PROPERTIES HoldPreventsClaims
