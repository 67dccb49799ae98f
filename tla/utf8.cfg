SPECIFICATION Utf8Spec
CONSTANTS
    WordBytes = 8
    BoundaryBytes = {0, 127, 128, 143, 144, 159, 160, 191, 192, 194, 223, 224, 225, 237, 239, 240, 241, 244, 245, 255}
    MaxLength = 4
INVARIANT
    AcceptsExactlyUtf8
CHECK_DEADLOCK FALSE
