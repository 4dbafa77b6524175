\* A request refused, or answered between two frames, is never sent again.
SPECIFICATION Spec
CONSTANTS
    Ids = {1, 2}
    MaxQueue = 2
PROPERTY TabFollowed
