SPECIFICATION CardSpec
CONSTANTS
    Previews = {p1, p2, p3}
    Window = 3
INVARIANTS CardCoversWindow
